---- MODULE Spec2Model ----
(***************************************************************************)
(* The preview proxy of karl-digi/manaflow, as a state machine.            *)
(*                                                                         *)
(* The source holds three implementations of the same proxy:               *)
(*   "pp"  apps/server/native/core/src/preview_proxy.rs                    *)
(*         (SharedState over two DashMaps, ProxyEngine, CancellationToken) *)
(*   "ps"  apps/server/native/core/src/proxy/{types,auth,handlers,server}  *)
(*         with its control surface in lib.rs                              *)
(*         (ProxyState over two tokio RwLocks, ProxyServer, Notify)        *)
(*   "cp"  crates/cmux-proxy/src/lib.rs, the workspace variant, which has  *)
(*         the request handlers and no registry of contexts                *)
(* The variable build says which of them the process runs.                 *)
(*                                                                         *)
(* Strings are sequences of one-character strings, so that splitting and   *)
(* formatting are computed and not assumed.                                *)
(***************************************************************************)
EXTENDS Integers, Sequences, FiniteSets, TLC

\* ------------------------------------------------------------------------
\* Bounds of the model
\* ------------------------------------------------------------------------

\* web contents ids run over 0..MaxId
MaxId == 2
\* how many times a server may be started in one behaviour
MaxStarts == 2
\* web contents ids run over 0..MaxFewId where requests, the accept loop or
\* the steps of concurrent calls are followed
MaxFewId == 1
\* the blanks between the scheme and the credential run over 0..MaxGap
MaxGap == 2
\* the port ranges scanned by a configured server run over 0..MaxRange
MaxRange == 3
\* the calls on one registry that run at the same time
MaxTasks == 2
\* the start and configure calls that run at the same time
MaxCallers == 2

\* ------------------------------------------------------------------------
\* Program constants
\* ------------------------------------------------------------------------

START_PORT == 39385
MAX_ATTEMPTS == 50
\* random_hex(4) in the username, random_hex(12) in the password
USERNAME_RANDOM_BYTES == 4
PASSWORD_RANDOM_BYTES == 12

\* Option<T>: the empty set is None, a one-element set is Some
None == {}

Some(v) == {v}

IsSome(o) == o # {}

Unwrap(o) == CHOOSE v \in o : TRUE

\* ------------------------------------------------------------------------
\* Maps (HashMap, DashMap) as functions with a finite domain
\* ------------------------------------------------------------------------

EmptyMap == [x \in {} |-> x]

MapInsert(m, k, v) == [x \in DOMAIN m \cup {k} |-> IF x = k THEN v ELSE m[x]]

MapRemove(m, k) == [x \in DOMAIN m \ {k} |-> m[x]]

MapGet(m, k) == IF k \in DOMAIN m THEN Some(m[k]) ELSE None

MapValues(m) == {m[k] : k \in DOMAIN m}

\* ------------------------------------------------------------------------
\* Strings
\* ------------------------------------------------------------------------

DecimalDigit(d) == <<"0", "1", "2", "3", "4", "5", "6", "7", "8", "9">>[d + 1]

\* format!("{n}") of a non-negative integer
RECURSIVE ToDecimal(_)
ToDecimal(n) ==
    IF n < 10 THEN <<DecimalDigit(n)>>
    ELSE ToDecimal(n \div 10) \o <<DecimalDigit(n % 10)>>

\* str::find(':'): the index of the first ':' or 0
FindColon(s) ==
    IF \E i \in 1..Len(s) : s[i] = ":"
    THEN CHOOSE i \in 1..Len(s) : s[i] = ":" /\ \A j \in 1..(i - 1) : s[j] # ":"
    ELSE 0

\* the draws of the random generator that the model follows
HexDraws == {"0", "f"}

\* random_hex(bytes): two hex digits per byte
random_hex(bytes) == {[i \in 1..(2 * bytes) |-> d] : d \in HexDraws}

\* ------------------------------------------------------------------------
\* The Proxy-Authorization header
\*   present  the header is there
\*   ascii    HeaderValue::to_str succeeds
\*   scheme   the text before the first blank
\*   gap      the number of blanks between the scheme and the credential
\*   b64      the credential segment is valid standard base64
\*   utf8     the decoded bytes are UTF-8
\*   text     the decoded text
\* ------------------------------------------------------------------------

Header(present, ascii, scheme, gap, b64, utf8, text) ==
    [present |-> present, ascii |-> ascii, scheme |-> scheme, gap |-> gap,
     b64 |-> b64, utf8 |-> utf8, text |-> text]

AbsentHeader == Header(FALSE, TRUE, "Basic", 1, TRUE, TRUE, <<>>)

BasicHeader(username, password) ==
    Header(TRUE, TRUE, "Basic", 1, TRUE, TRUE, username \o <<":">> \o password)

ToAsciiLower(scheme) ==
    CASE scheme = "Basic" -> "basic"
      [] scheme = "BASIC" -> "basic"
      [] OTHER -> scheme


\* ------------------------------------------------------------------------
\* preview_proxy.rs: ProxyContext and SharedState
\* ------------------------------------------------------------------------

\* ProxyContext::new, for the two draws of the random generator
ProxyContext_new(web_contents_id, hex4, hex12) ==
    [username |-> <<"w", "c", "-">> \o ToDecimal(web_contents_id) \o <<"-">> \o hex4,
     password |-> hex12,
     web_contents_id |-> web_contents_id]

\* SharedState::register_context: two inserts, by web contents id first
register_context(shared, ctx) ==
    [shared EXCEPT
        !.contexts_by_web_contents =
            MapInsert(shared.contexts_by_web_contents, ctx.web_contents_id, ctx.username),
        !.contexts_by_username =
            MapInsert(shared.contexts_by_username, ctx.username, ctx)]

\* SharedState::release_by_web_contents: the state it leaves
release_by_web_contents(shared, id) ==
    IF id \notin DOMAIN shared.contexts_by_web_contents
    THEN shared
    ELSE [shared EXCEPT
            !.contexts_by_web_contents = MapRemove(shared.contexts_by_web_contents, id),
            !.contexts_by_username =
                MapRemove(shared.contexts_by_username, shared.contexts_by_web_contents[id])]

\* SharedState::release_by_web_contents: the Option it returns
release_by_web_contents_ret(shared, id) ==
    IF id \notin DOMAIN shared.contexts_by_web_contents
    THEN None
    ELSE MapGet(shared.contexts_by_username, shared.contexts_by_web_contents[id])

\* SharedState::credentials_for_web_contents
credentials_for_web_contents(shared, id) ==
    IF id \notin DOMAIN shared.contexts_by_web_contents
    THEN None
    ELSE LET ctx == MapGet(shared.contexts_by_username,
                           shared.contexts_by_web_contents[id])
         IN  IF ctx = None THEN None
             ELSE Some([username |-> Unwrap(ctx).username,
                        password |-> Unwrap(ctx).password])

\* SharedState::context_for_username
context_for_username(shared, username) == MapGet(shared.contexts_by_username, username)

\* SharedState::authenticate
authenticate(shared, header) ==
    IF ~header.present THEN None
    ELSE IF ~header.ascii THEN None
    \* value.starts_with("Basic ")
    ELSE IF ~(header.scheme = "Basic" /\ header.gap >= 1) THEN None
    \* the rest, further blanks included, goes to the base64 decoder
    ELSE IF ~(header.gap = 1 /\ header.b64) THEN None
    ELSE IF ~header.utf8 THEN None
    ELSE LET decoded_str == header.text
             colon == FindColon(decoded_str)
         IN  \* splitn(2, ':'): the second part is missing without a ':'
             IF colon = 0 THEN None
             ELSE LET username == SubSeq(decoded_str, 1, colon - 1)
                      password == SubSeq(decoded_str, colon + 1, Len(decoded_str))
                      ctx == context_for_username(shared, username)
                  IN  IF ctx = None THEN None
                      ELSE IF Unwrap(ctx).password = password THEN ctx ELSE None

\* ------------------------------------------------------------------------
\* proxy/types.rs, proxy/auth.rs: ProxyState
\* (the lock steps of these operations are in the concurrent section)
\* ------------------------------------------------------------------------

ProxyState_new ==
    [contexts_by_username |-> EmptyMap, contexts_by_web_contents_id |-> EmptyMap,
     logging_enabled |-> FALSE]

\* ProxyState::add_context
add_context(state, context) ==
    [state EXCEPT
        !.contexts_by_username =
            MapInsert(state.contexts_by_username, context.username, context),
        !.contexts_by_web_contents_id =
            MapInsert(state.contexts_by_web_contents_id, context.web_contents_id, context)]

\* a removal that forgets the username index
remove_context_by_id_only(state, web_contents_id) ==
    [state EXCEPT !.contexts_by_web_contents_id =
        MapRemove(state.contexts_by_web_contents_id, web_contents_id)]

\* ProxyState::remove_context: the state it leaves
remove_context(state, web_contents_id) ==
    IF web_contents_id \in DOMAIN state.contexts_by_web_contents_id
    THEN [state EXCEPT
            !.contexts_by_web_contents_id =
                MapRemove(state.contexts_by_web_contents_id, web_contents_id),
            !.contexts_by_username =
                MapRemove(state.contexts_by_username,
                          state.contexts_by_web_contents_id[web_contents_id].username)]
    ELSE state

\* ProxyState::remove_context: the Option it returns
remove_context_ret(state, web_contents_id) ==
    MapGet(state.contexts_by_web_contents_id, web_contents_id)

\* ProxyState::get_context_by_username
get_context_by_username(state, username) == MapGet(state.contexts_by_username, username)

\* ProxyState::get_context_by_web_contents_id
get_context_by_web_contents_id(state, id) == MapGet(state.contexts_by_web_contents_id, id)

\* an authenticator that looks the username up and compares no password
authenticate_request_any_password(state, header) ==
    IF ~header.present THEN None
    ELSE IF ~header.ascii THEN None
    ELSE IF ~(header.gap >= 1 /\ ToAsciiLower(header.scheme) = "basic") THEN None
    ELSE IF ~header.b64 THEN None
    ELSE IF ~header.utf8 THEN None
    ELSE IF FindColon(header.text) = 0 THEN None
    ELSE get_context_by_username(state,
            SubSeq(header.text, 1, FindColon(header.text) - 1))

\* auth::authenticate_request
authenticate_request(state, header) ==
    IF ~header.present THEN None
    ELSE IF ~header.ascii THEN None
    \* split_whitespace must give two parts, the first "basic" in any case
    ELSE IF ~(header.gap >= 1 /\ ToAsciiLower(header.scheme) = "basic") THEN None
    ELSE IF ~header.b64 THEN None
    ELSE IF ~header.utf8 THEN None
    ELSE LET decoded_str == header.text
             separator_index == FindColon(decoded_str)
         IN  IF separator_index = 0 THEN None
             ELSE LET username == SubSeq(decoded_str, 1, separator_index - 1)
                      password == SubSeq(decoded_str, separator_index + 1, Len(decoded_str))
                      context == get_context_by_username(state, username)
                  IN  IF context = None THEN None
                      ELSE IF Unwrap(context).password # password THEN None
                      ELSE context


\* ------------------------------------------------------------------------
\* Requests and the two handle_request
\*   header   the Proxy-Authorization header
\*   method   "CONNECT" or "GET"
\*   upgrade  is_upgrade_request(req)
\*   target   whether the request target (the CONNECT authority) parses
\*   up_ok    whether the upstream answers the request or the dial
\*   up_status the status the upstream answers with
\* A response is the status sent to the client and what was issued upstream:
\* "none", "request" (through the pooled client) or "dial" (a TCP connect).
\* ------------------------------------------------------------------------

Response(status, upstream) == [status |-> status, upstream |-> upstream]

\* preview_proxy.rs handle_connect
pp_handle_connect(req) ==
    IF ~req.target THEN Response(400, "none")
    \* 200 is answered first; the spawned task dials on the upgraded stream
    ELSE Response(200, "dial")

\* preview_proxy.rs handle_upgrade
pp_handle_upgrade(req) ==
    IF ~req.target THEN Response(400, "none")
    ELSE IF ~req.up_ok THEN Response(502, "request")
    ELSE Response(req.up_status, "request")

\* a handle_http that answers a target it cannot parse as it answers an
\* upstream that failed
pp_handle_http_bad_gateway(req) ==
    IF ~req.target THEN Response(502, "none")
    ELSE IF ~req.up_ok THEN Response(502, "request")
    ELSE Response(req.up_status, "request")

\* preview_proxy.rs handle_http
pp_handle_http(req) ==
    IF ~req.target THEN Response(400, "none")
    ELSE IF ~req.up_ok THEN Response(502, "request")
    ELSE Response(req.up_status, "request")

\* preview_proxy.rs handle_request
handle_request(shared, req) ==
    IF authenticate(shared, req.header) = None
    THEN Response(407, "none")
    ELSE IF req.method = "CONNECT" THEN pp_handle_connect(req)
    ELSE IF req.upgrade THEN pp_handle_upgrade(req)
    ELSE pp_handle_http(req)

\* proxy/handlers.rs handle_connect
ps_handle_connect(req) ==
    IF ~req.target THEN Response(400, "none")
    \* the dial comes before the answer
    ELSE IF ~req.up_ok THEN Response(502, "dial")
    ELSE Response(200, "dial")

\* proxy/handlers.rs handle_upgrade
ps_handle_upgrade(req) ==
    IF ~req.target THEN Response(400, "none")
    ELSE IF ~req.up_ok THEN Response(502, "request")
    ELSE Response(req.up_status, "request")

\* proxy/handlers.rs handle_http
ps_handle_http(req) ==
    IF ~req.target THEN Response(400, "none")
    ELSE IF ~req.up_ok THEN Response(502, "request")
    ELSE Response(req.up_status, "request")

\* proxy/handlers.rs handle_request
ps_handle_request(state, req) ==
    IF authenticate_request(state, req.header) = None
    THEN Response(407, "none")
    ELSE IF req.method = "CONNECT" THEN ps_handle_connect(req)
    ELSE IF req.upgrade THEN ps_handle_upgrade(req)
    ELSE ps_handle_http(req)

\* ------------------------------------------------------------------------
\* Listeners
\* ------------------------------------------------------------------------

\* the ports this process holds: a listener lives until its accept loop ends
HeldPorts(tasklist) ==
    {tasklist[i].port : i \in {j \in 1..Len(tasklist) : tasklist[j].pc # "done"}}

\* ProxyServer::bind_port and the loop of ProxyEngine::start: the first port
\* of the range that is not in use, or None
bind_port(start, range, in_use) ==
    LET free == {p \in start..(start + range - 1) : p \notin in_use}
    IN  IF free = {} THEN None
        ELSE Some(CHOOSE p \in free : \A q \in free : p <= q)

\* Notify::notify_waiters: wakes the Notified futures that exist now and
\* stores no permit
notify_waiters(srv) ==
    IF srv.pc = "select" THEN [srv EXCEPT !.pc = "notified"] ELSE srv

\* ProxyServer::shutdown; signalled records that it was called
shutdown(tasklist, i) ==
    [tasklist EXCEPT ![i] = [notify_waiters(tasklist[i]) EXCEPT !.signalled = TRUE]]


\* ------------------------------------------------------------------------
\* State
\* ------------------------------------------------------------------------

VARIABLES
    build,          \* "pp": preview_proxy.rs, "ps": proxy/ with lib.rs,
                    \* "cp": crates/cmux-proxy
    PREVIEW_PROXY,  \* pp: the OnceCell, 0 or an index into engines
    engines,        \* pp: the ProxyEngine values made, each with its server task
    engine_shared,  \* pp: the SharedState of the engine in PREVIEW_PROXY
    PROXY_SERVER,   \* ps: the global Option<ProxyServer>, 0 or an index into servers
    servers,        \* ps: the ProxyServer values made, each with its serve task
    server_state,   \* ps: the ProxyState of the server in PROXY_SERVER
    last,           \* the operation that ran last, with what it returned
    tasks,          \* the registry calls in progress, each with its position
    locks,          \* ps: the two RwLocks of the ProxyState
    calls,          \* the start and configure calls in progress, step by step
    conn,           \* the authenticated request being handled, step by step
    fwd,            \* the request last rewritten, with what was sent upstream
    app,            \* the function last applied, with its argument and result
    INITIAL_LOGGING \* pp: the static flag a new engine takes its logging flag from

vars == <<build, PREVIEW_PROXY, engines, engine_shared,
          PROXY_SERVER, servers, server_state, last, tasks, locks, calls,
          conn, fwd, app, INITIAL_LOGGING>>

conc_vars == <<tasks, locks>>

io_vars == <<conn, fwd, app, INITIAL_LOGGING>>

more_vars == <<calls, io_vars>>

pp_vars == <<PREVIEW_PROXY, engines, engine_shared>>

ps_vars == <<PROXY_SERVER, servers, server_state>>

SharedState_default ==
    [contexts_by_username |-> EmptyMap, contexts_by_web_contents |-> EmptyMap,
     logging_enabled |-> FALSE]

\* ------------------------------------------------------------------------
\* Inputs
\* ------------------------------------------------------------------------

\* the web contents ids of a specification with ids up to n; 0 is the id
\* preview_proxy_configure refuses
Ids(n) == 1..n

IdsAndZero(n) == 0..n

\* lib.rs takes the credentials from the caller
UsernamePool == {<<"a">>, <<"b">>}

PasswordPool == {<<"p">>, <<"p", ":", "q">>}

\* the contexts preview_proxy_configure can make
GeneratedContexts(n) ==
    {ProxyContext_new(id, h4, h12) :
        id \in Ids(n),
        h4 \in random_hex(USERNAME_RANDOM_BYTES),
        h12 \in random_hex(PASSWORD_RANDOM_BYTES)}

\* the (username, password) pairs a client may present
pp_PresentedPairs ==
    {<<c.username, c.password>> : c \in GeneratedContexts(MaxFewId)}

ps_PresentedPairs == UsernamePool \X PasswordPool

\* the decoded credential texts a client may send: a pair joined by ':',
\* a username alone, a password behind a ':'
CredentialTexts(pairs) ==
    {pr[1] \o <<":">> \o pr[2] : pr \in pairs}
        \cup {pr[1] : pr \in pairs}
        \cup {<<":">> \o pr[2] : pr \in pairs}

Schemes == {"Basic", "basic", "Bearer"}

\* one credential text in the shapes a header can take
Shapes(text) ==
    {Header(TRUE, FALSE, "Basic", 1, TRUE, TRUE, text),
     Header(TRUE, TRUE, "Basic", 1, FALSE, TRUE, text),
     Header(TRUE, TRUE, "Basic", 1, TRUE, FALSE, text)}
        \cup {Header(TRUE, TRUE, s, g, TRUE, TRUE, text) :
                s \in Schemes, g \in 0..MaxGap}

HeadersOf(pairs, shaped) ==
    {AbsentHeader}
        \cup {Header(TRUE, TRUE, "Basic", 1, TRUE, TRUE, t) : t \in CredentialTexts(pairs)}
        \cup Shapes(shaped)

pp_Headers ==
    LET c == ProxyContext_new(1, [i \in 1..(2 * USERNAME_RANDOM_BYTES) |-> "0"],
                                 [i \in 1..(2 * PASSWORD_RANDOM_BYTES) |-> "0"])
    IN  HeadersOf(pp_PresentedPairs, c.username \o <<":">> \o c.password)

ps_Headers == HeadersOf(ps_PresentedPairs, <<"a", ":", "p">>)

Rest(method, upgrade, target, up_ok, up_status) ==
    [method |-> method, upgrade |-> upgrade, target |-> target,
     up_ok |-> up_ok, up_status |-> up_status]

\* what a handler reads of a request once it is authenticated: the method;
\* is_upgrade_request unless the method is CONNECT; whether the target
\* parses; and, once something is sent upstream, how the upstream answers
RequestRest ==
    {Rest("CONNECT", FALSE, FALSE, TRUE, 200)}
        \cup {Rest("CONNECT", FALSE, TRUE, ok, 200) : ok \in BOOLEAN}
        \cup {Rest("GET", u, FALSE, TRUE, 200) : u \in BOOLEAN}
        \cup {Rest("GET", u, TRUE, FALSE, 200) : u \in BOOLEAN}
        \cup {Rest("GET", u, TRUE, TRUE, st) : u \in BOOLEAN, st \in {101, 200}}

\* what is left unread of a request that is not authenticated
NoRest == Rest("GET", FALSE, TRUE, TRUE, 200)

Request(header, rest) ==
    [header |-> header, method |-> rest.method, upgrade |-> rest.upgrade,
     target |-> rest.target, up_ok |-> rest.up_ok, up_status |-> rest.up_status]

\* ------------------------------------------------------------------------
\* The record of the last operation
\*   op      its name
\*   id      the web contents id it was called with
\*   ok      FALSE when it returned Err
\*   ret     what it returned, as an Option
\*   pre     the context registered for id before it ran, as an Option
\*   port    the port it returned
\*   req     the request handled
\*   resp    the response to it
\*   before  the registry, the port and the held ports before it ran
\* ------------------------------------------------------------------------

NoReq == Request(AbsentHeader, NoRest)

NoResp == Response(0, "none")

Snapshot(port, ports, registry) == [port |-> port, ports |-> ports, registry |-> registry]

NoSnapshot == Snapshot(0, {}, {})

Last(op, id, ok, ret, pre, port, req, resp, before) ==
    [op |-> op, id |-> id, ok |-> ok, ret |-> ret, pre |-> pre, port |-> port,
     req |-> req, resp |-> resp, before |-> before]

\* a tokio RwLock: the task that holds it for writing (0: none), the tasks
\* that hold it for reading, and the queue of the tasks that wait, in order
RwLock_new == [writer |-> 0, readers |-> {}, queue |-> <<>>]

\* the locks of ProxyState::new
ProxyState_locks == [by_username |-> RwLock_new, by_web_contents_id |-> RwLock_new]

Tasks == 1..MaxTasks

NoContext == [username |-> <<>>, password |-> <<>>, web_contents_id |-> 0]

\* a call in progress: the operation, where it stands, its arguments, the
\* entry its first removal found, and the lock it asks for
Task(op, pc, id, ctx, found, want) ==
    [op |-> op, pc |-> pc, id |-> id, ctx |-> ctx, found |-> found, want |-> want]

IdleTask == Task("idle", "idle", 0, NoContext, None, "none")

Callers == 1..MaxCallers

\* a start or configure call in progress: the operation, where it stands,
\* its arguments, the engine or server it holds (0: none), the registry of
\* that engine as long as no other caller can reach it, the port it returns
Call(op, pc, id, ctx, engine, own, port) ==
    [op |-> op, pc |-> pc, id |-> id, ctx |-> ctx, engine |-> engine,
     own |-> own, port |-> port]

IdleCall == Call("idle", "idle", 0, NoContext, 0, SharedState_default, 0)

\* ------------------------------------------------------------------------
\* Header maps, client responses and the request being handled
\* ------------------------------------------------------------------------

\* header names
HOST == <<"h", "o", "s", "t">>

PROXY_AUTHORIZATION == <<"p", "r", "o", "x", "y", "-", "a", "u", "t", "h", "o", "r", "i", "z", "a", "t", "i", "o", "n">>

CONNECTION == <<"c", "o", "n", "n", "e", "c", "t", "i", "o", "n">>

CONTENT_TYPE == <<"c", "o", "n", "t", "e", "n", "t", "-", "t", "y", "p", "e">>

TEXT_PLAIN == <<"t", "e", "x", "t", "/", "p", "l", "a", "i", "n", ";", " ", "c", "h", "a", "r", "s", "e", "t", "=", "u", "t", "f", "-", "8">>

UPGRADE == <<"u", "p", "g", "r", "a", "d", "e">>

SET_COOKIE == <<"s", "e", "t", "-", "c", "o", "o", "k", "i", "e">>

KEEP_ALIVE == <<"k", "e", "e", "p", "-", "a", "l", "i", "v", "e">>

WEBSOCKET == <<"w", "e", "b", "s", "o", "c", "k", "e", "t">>

HOP_HEADERS ==
    {<<"c", "o", "n", "n", "e", "c", "t", "i", "o", "n">>,
     <<"k", "e", "e", "p", "-", "a", "l", "i", "v", "e">>,
     <<"p", "r", "o", "x", "y", "-", "a", "u", "t", "h", "e", "n", "t", "i", "c", "a", "t", "e">>,
     <<"p", "r", "o", "x", "y", "-", "a", "u", "t", "h", "o", "r", "i", "z", "a", "t", "i", "o", "n">>,
     <<"t", "e">>,
     <<"t", "r", "a", "i", "l", "e", "r", "s">>,
     <<"t", "r", "a", "n", "s", "f", "e", "r", "-", "e", "n", "c", "o", "d", "i", "n", "g">>,
     <<"u", "p", "g", "r", "a", "d", "e">>,
     <<"p", "r", "o", "x", "y", "-", "c", "o", "n", "n", "e", "c", "t", "i", "o", "n">>,
     <<"x", "-", "c", "m", "u", "x", "-", "p", "o", "r", "t", "-", "i", "n", "t", "e", "r", "n", "a", "l">>,
     <<"x", "-", "c", "m", "u", "x", "-", "w", "o", "r", "k", "s", "p", "a", "c", "e", "-", "i", "n", "t", "e", "r", "n", "a", "l">>}

\* a HeaderMap as the sequence of its <<name, value>> entries; a name may
\* have several entries
HeaderMap_remove(headers, name) == SelectSeq(headers, LAMBDA e : e[1] # name)

\* HeaderMap::insert: the value replaces every value the name had
HeaderMap_insert(headers, name, value) ==
    Append(HeaderMap_remove(headers, name), <<name, value>>)

\* for (name, value) in from.iter() { if skipped { continue }
\*                                    into.insert(name, value.clone()) }
RECURSIVE insert_each(_, _, _)
insert_each(from, skip, into) ==
    IF from = <<>> THEN into
    ELSE insert_each(Tail(from), skip,
            IF Head(from)[1] \in skip THEN into
            ELSE HeaderMap_insert(into, Head(from)[1], Head(from)[2]))

\* a response as the client gets it; body is "empty", "upstream" (the body
\* of the upstream response) or "message" (a text made by the proxy)
ClientResponse(status, headers, body) ==
    [status |-> status, headers |-> headers, body |-> body]

\* preview_proxy.rs and cmux-proxy response_with
response_with(status) ==
    ClientResponse(status, << <<CONTENT_TYPE, TEXT_PLAIN>> >>, "message")

\* proxy/handlers.rs error_response
error_response(status) == ClientResponse(status, <<>>, "message")

\* the header maps an upstream may answer with
UpstreamHeaders ==
    {<<>>,
     << <<SET_COOKIE, <<"a">>>>, <<SET_COOKIE, <<"b">>>> >>,
     << <<CONNECTION, KEEP_ALIVE>>, <<UPGRADE, WEBSOCKET>> >>}

\* an authenticated request with the answer the upstream will give it
TunnelRequest(rest, up_headers) ==
    [method |-> rest.method, upgrade |-> rest.upgrade, target |-> rest.target,
     up_ok |-> rest.up_ok, up_status |-> rest.up_status,
     up_headers |-> up_headers]

\* the upstream's headers are read by the upgrade path alone
TunnelRequests ==
    {TunnelRequest(rest, <<>>) :
        rest \in {r \in RequestRest : r.method = "CONNECT" \/ r.upgrade}}
        \cup {TunnelRequest(Rest("GET", TRUE, TRUE, TRUE, st), h) :
                st \in {101, 200}, h \in UpstreamHeaders}

\* the handling of one request
\*   pc      "idle", "handler", "respond", "await_upgrade", "dial", "copy",
\*           "done"
\*   resp    the response the client has received, as an Option
\*   events  what the handler and its task did, in order
\*   client_eof, upstream_eof   whether that side has closed its stream
Conn(pc, req, resp, events, client_eof, upstream_eof) ==
    [pc |-> pc, req |-> req, resp |-> resp, events |-> events,
     client_eof |-> client_eof, upstream_eof |-> upstream_eof]

IdleConn == Conn("idle", TunnelRequest(NoRest, <<>>), None, <<>>, FALSE, FALSE)

\* ------------------------------------------------------------------------
\* Targets, the loopback classifiers and the rewriters
\* ------------------------------------------------------------------------

UpperAlpha == <<"A", "B", "C", "D", "E", "F", "G", "H", "I", "J", "K", "L", "M", "N", "O", "P", "Q", "R", "S", "T", "U", "V", "W", "X", "Y", "Z">>

LowerAlpha == <<"a", "b", "c", "d", "e", "f", "g", "h", "i", "j", "k", "l", "m", "n", "o", "p", "q", "r", "s", "t", "u", "v", "w", "x", "y", "z">>

\* str::to_ascii_lowercase, str::to_lowercase on ASCII text
to_lowercase(s) ==
    [i \in DOMAIN s |->
        IF \E k \in DOMAIN UpperAlpha : UpperAlpha[k] = s[i]
        THEN LowerAlpha[CHOOSE k \in DOMAIN UpperAlpha : UpperAlpha[k] = s[i]]
        ELSE s[i]]

starts_with(s, prefix) ==
    Len(s) >= Len(prefix) /\ SubSeq(s, 1, Len(prefix)) = prefix

ends_with(s, suffix) ==
    Len(s) >= Len(suffix) /\ SubSeq(s, Len(s) - Len(suffix) + 1, Len(s)) = suffix

\* str::trim_matches over a set of characters
RECURSIVE trim_matches(_, _)
trim_matches(s, chars) ==
    IF s = <<>> THEN s
    ELSE IF Head(s) \in chars THEN trim_matches(Tail(s), chars)
    ELSE IF s[Len(s)] \in chars THEN trim_matches(SubSeq(s, 1, Len(s) - 1), chars)
    ELSE s

\* str::split on one character
RECURSIVE split(_, _)
split(s, sep) ==
    IF \E i \in DOMAIN s : s[i] = sep
    THEN LET i == CHOOSE k \in DOMAIN s :
                    s[k] = sep /\ \A j \in 1..(k - 1) : s[j] # sep
         IN  <<SubSeq(s, 1, i - 1)>> \o split(SubSeq(s, i + 1, Len(s)), sep)
    ELSE <<s>>

IsDigit(c) == \E d \in 0..9 : DecimalDigit(d) = c

DigitValue(c) == CHOOSE d \in 0..9 : DecimalDigit(d) = c

\* str::parse of an unsigned decimal number, as an Option
RECURSIVE parse_decimal(_)
parse_decimal(s) ==
    IF s = <<>> \/ \E i \in DOMAIN s : ~IsDigit(s[i]) THEN None
    ELSE IF Len(s) = 1 THEN Some(DigitValue(s[1]))
    ELSE Some(10 * Unwrap(parse_decimal(SubSeq(s, 1, Len(s) - 1)))
                + DigitValue(s[Len(s)]))

\* str::parse::<Ipv4Addr>: four decimal octets without leading zeros
parse_Ipv4Addr(s) ==
    LET parts == split(s, ".")
    IN  IF /\ Len(parts) = 4
           /\ \A i \in 1..4 :
                /\ Len(parts[i]) \in 1..3
                /\ IsSome(parse_decimal(parts[i]))
                /\ Unwrap(parse_decimal(parts[i])) <= 255
                /\ (Len(parts[i]) > 1 => parts[i][1] # "0")
        THEN Some([i \in 1..4 |-> Unwrap(parse_decimal(parts[i]))])
        ELSE None

\* preview_proxy.rs is_loopback_hostname
pp_is_loopback_hostname(host) ==
    LET lower == to_lowercase(trim_matches(trim_matches(host, {" "}), {"[", "]"}))
    IN  \/ lower \in {<<"l", "o", "c", "a", "l", "h", "o", "s", "t">>, <<"1", "2", "7", ".", "0", ".", "0", ".", "1">>, <<"0", ".", "0", ".", "0", ".", "0">>, <<":", ":", "1">>, <<":", ":", "f", "f", "f", "f", ":", "1", "2", "7", ".", "0", ".", "0", ".", "1">>}
        \/ ends_with(lower, <<".", "l", "o", "c", "a", "l", "h", "o", "s", "t">>)
        \/ /\ IsSome(parse_Ipv4Addr(lower))
           /\ Unwrap(parse_Ipv4Addr(lower))[1] = 127

\* proxy/rewrite.rs is_loopback_hostname
ps_is_loopback_hostname(hostname) ==
    \/ to_lowercase(hostname) \in {<<"l", "o", "c", "a", "l", "h", "o", "s", "t">>, <<"1", "2", "7", ".", "0", ".", "0", ".", "1">>, <<":", ":", "1">>, <<"[", ":", ":", "1", "]">>}
    \/ starts_with(hostname, <<"1", "2", "7", ".">>)
    \/ starts_with(hostname, <<"[", ":", ":", "f", "f", "f", "f", ":", "1", "2", "7", ".">>)

\* a Url as the url crate keeps it: the host in lower case, the port only
\* when it is not the default port of the scheme
Url(scheme, host, port) == [scheme |-> scheme, host |-> host, port |-> port]

default_port(scheme) == IF scheme \in {"https", "wss"} THEN 443 ELSE 80

Url_parse(scheme, host, port) ==
    Url(scheme, to_lowercase(host), port \ {default_port(scheme)})

\* Url::set_scheme followed by Url::set_host and Url::set_port(None)
Url_set(url, scheme, host) == Url(scheme, to_lowercase(host), None)

\* host[:port], the authority of a Url
authority(url) ==
    IF IsSome(url.port) THEN url.host \o <<":">> \o ToDecimal(Unwrap(url.port))
    ELSE url.host

Route(morph_id, scope, domain_suffix) ==
    [morph_id |-> morph_id, scope |-> scope, domain_suffix |-> domain_suffix]

\* build_cmux_host: format!("cmux-{}-{}-{}.{}", morph_id, scope, port, suffix)
build_cmux_host(route, port) ==
    <<"c", "m", "u", "x", "-">> \o route.morph_id \o <<"-">> \o route.scope \o <<"-">>
        \o ToDecimal(port) \o <<".">> \o route.domain_suffix

\* preview_proxy.rs determine_requested_port, over the schemes a target has
pp_determine_requested_port(url) ==
    IF IsSome(url.port) THEN Unwrap(url.port)
    ELSE IF url.scheme \in {"https", "wss"} THEN 443 ELSE 80

\* a determine_requested_port that overlooks the port of the url
determine_requested_port_by_scheme(url) ==
    IF url.scheme \in {"https", "wss"} THEN 443 ELSE 80

\* proxy/rewrite.rs determine_requested_port
determine_requested_port(url) ==
    IF IsSome(url.port) THEN Unwrap(url.port)
    ELSE IF url.scheme \in {"https", "wss"} THEN 443 ELSE 80

ProxyTarget(url, connect_port) == [url |-> url, connect_port |-> connect_port]

\* preview_proxy.rs rewrite_target; route is the Option ctx.route
pp_rewrite_target(target, route) ==
    LET loopback == IsSome(route) /\ pp_is_loopback_hostname(target.host)
        rewritten == IF loopback
                     THEN Url_set(target, "https",
                            build_cmux_host(Unwrap(route),
                                            pp_determine_requested_port(target)))
                     ELSE target
        secure == loopback \/ target.scheme \in {"https", "wss"}
    IN  ProxyTarget(rewritten,
                    IF IsSome(rewritten.port) THEN Unwrap(rewritten.port)
                    ELSE IF secure THEN 443 ELSE 80)

\* a rewrite_target that takes a route of its own for a context without one
rewrite_target_default_route(url, route) ==
    LET used == IF IsSome(route) THEN Unwrap(route)
                ELSE Route(<<"d", "e", "f", "a", "u", "l", "t">>, <<"b", "a", "s", "e">>, <<"c", "m", "u", "x", ".", "a", "p", "p">>)
        loopback == ps_is_loopback_hostname(url.host)
        rewritten == IF loopback
                     THEN Url_set(url,
                            IF url.scheme \in {"ws", "wss"} THEN "wss" ELSE "https",
                            build_cmux_host(used, determine_requested_port(url)))
                     ELSE url
    IN  [url |-> rewritten, secure |-> loopback \/ url.scheme \in {"https", "wss"}]

\* proxy/rewrite.rs rewrite_target: the rewritten url and secure
rewrite_target(url, route) ==
    LET loopback == IsSome(route) /\ ps_is_loopback_hostname(url.host)
        rewritten == IF loopback
                     THEN Url_set(url,
                            IF url.scheme \in {"ws", "wss"} THEN "wss" ELSE "https",
                            build_cmux_host(Unwrap(route),
                                            determine_requested_port(url)))
                     ELSE url
    IN  [url |-> rewritten, secure |-> loopback \/ url.scheme \in {"https", "wss"}]

\* proxy/handlers.rs parse_request_url: ws and wss become http and https
parse_request_url(scheme, host, port) ==
    Url_parse(CASE scheme = "ws" -> "http" [] scheme = "wss" -> "https"
                [] OTHER -> scheme,
              host, port)

\* proxy/handlers.rs parse_host_port: split at the last ':', parse the port
parse_host_port(text) ==
    IF \E i \in DOMAIN text : text[i] = ":"
    THEN LET i == CHOOSE k \in DOMAIN text :
                    text[k] = ":" /\ \A j \in (k + 1)..Len(text) : text[j] # ":"
             port == parse_decimal(SubSeq(text, i + 1, Len(text)))
         IN  IF IsSome(port) /\ Unwrap(port) <= 65535
             THEN Some(<<SubSeq(text, 1, i - 1), Unwrap(port)>>)
             ELSE None
    ELSE None

\* preview_proxy.rs host_header_value
host_header_value(target) == authority(target.url)

RECURSIVE remove_each(_, _)
remove_each(headers, names) ==
    IF names = {} THEN headers
    ELSE LET n == CHOOSE x \in names : TRUE
         IN  remove_each(HeaderMap_remove(headers, n), names \ {n})

\* HeaderMap::get: the first value of the name, as an Option
HeaderMap_get(headers, name) ==
    IF \E i \in DOMAIN headers : headers[i][1] = name
    THEN Some(headers[CHOOSE i \in DOMAIN headers :
                        headers[i][1] = name
                        /\ \A j \in 1..(i - 1) : headers[j][1] # name][2])
    ELSE None

\* a strip that takes out the first hop-by-hop entry alone
strip_first_hop_header(headers) ==
    IF \E i \in DOMAIN headers : headers[i][1] \in HOP_HEADERS
    THEN LET i == CHOOSE k \in DOMAIN headers :
                    headers[k][1] \in HOP_HEADERS
                    /\ \A j \in 1..(k - 1) : headers[j][1] \notin HOP_HEADERS
         IN  SubSeq(headers, 1, i - 1) \o SubSeq(headers, i + 1, Len(headers))
    ELSE headers

\* preview_proxy.rs strip_hop_by_hop_headers
strip_hop_by_hop_headers(headers) ==
    LET connection_header == HeaderMap_get(headers, CONNECTION)
        tokens == IF IsSome(connection_header)
                  THEN LET parts == split(Unwrap(connection_header), ",")
                       IN  {to_lowercase(trim_matches(parts[i], {" "})) :
                                i \in DOMAIN parts} \ {<<>>}
                  ELSE {}
    IN  remove_each(remove_each(headers, HOP_HEADERS), tokens)

\* ------------------------------------------------------------------------
\* What a handler makes of a request target and its headers
\* ------------------------------------------------------------------------

\* the target and the headers of an authenticated request, with the route
\* of the context it authenticated as
ForwardInput(method, upgrade, scheme, host, port, route, headers) ==
    [method |-> method, upgrade |-> upgrade, scheme |-> scheme, host |-> host,
     port |-> port, route |-> route, headers |-> headers]

\*   url           the rewritten url
\*   connect_port  the port the handler computed to connect to, as an Option
\*   dial          the <<host, port>> the handler itself dials, as an Option
\*   sent          the headers of the request sent upstream, as an Option
Forward(pc, input, url, connect_port, dial, sent) ==
    [pc |-> pc, input |-> input, url |-> url, connect_port |-> connect_port,
     dial |-> dial, sent |-> sent]

NoForward ==
    Forward("idle", ForwardInput("GET", FALSE, "http", <<>>, None, None, <<>>),
            Url("http", <<>>, None), None, None, None)

\* preview_proxy.rs handle_connect, handle_upgrade and handle_http up to
\* the dial or the upstream request
pp_forward(input) ==
    IF input.method = "CONNECT"
    THEN LET rewritten == pp_rewrite_target(
                            Url_parse("https", input.host, input.port), input.route)
         IN  Forward("done", input, rewritten.url, Some(rewritten.connect_port),
                     Some(<<rewritten.url.host, rewritten.connect_port>>), None)
    ELSE LET rewritten == pp_rewrite_target(
                            Url_parse(input.scheme, input.host, input.port),
                            input.route)
             headers == HeaderMap_insert(
                            insert_each(input.headers, {PROXY_AUTHORIZATION}, <<>>),
                            HOST, host_header_value(rewritten))
         IN  Forward("done", input, rewritten.url, Some(rewritten.connect_port),
                     None,
                     Some(IF input.upgrade
                          THEN remove_each(headers,
                                    {<<"p", "r", "o", "x", "y", "-", "c", "o", "n", "n", "e", "c", "t", "i", "o", "n">>, <<"k", "e", "e", "p", "-", "a", "l", "i", "v", "e">>, <<"t", "e">>, <<"t", "r", "a", "n", "s", "f", "e", "r", "-", "e", "n", "c", "o", "d", "i", "n", "g">>, <<"t", "r", "a", "i", "l", "e", "r", "s">>})
                          ELSE strip_hop_by_hop_headers(headers)))

\* proxy/handlers.rs handle_connect, handle_upgrade and handle_http up to
\* the dial or the upstream request; a CONNECT authority is host:port
ps_forward(input) ==
    IF input.method = "CONNECT"
    THEN LET parsed == Unwrap(parse_host_port(
                            input.host \o <<":">> \o ToDecimal(Unwrap(input.port))))
             rewritten == rewrite_target(
                            Url_parse("https", parsed[1], Some(parsed[2])),
                            input.route)
             final_port == determine_requested_port(rewritten.url)
         IN  Forward("done", input, rewritten.url, Some(final_port),
                     Some(<<rewritten.url.host, final_port>>), None)
    ELSE LET rewritten == rewrite_target(
                            parse_request_url(input.scheme, input.host, input.port),
                            input.route)
         IN  Forward("done", input, rewritten.url, None, None,
                     Some(HeaderMap_insert(
                            HeaderMap_remove(input.headers, PROXY_AUTHORIZATION),
                            HOST, rewritten.url.host)))

\* a function applied to an argument: its name, the argument, the result
App(op, arg, out) == [op |-> op, arg |-> arg, out |-> out]

IdleApp == App("idle", <<>>, <<>>)

Init ==
    /\ build \in {"pp", "ps", "cp"}
    /\ PREVIEW_PROXY = 0
    /\ engines = <<>>
    /\ engine_shared = SharedState_default
    /\ PROXY_SERVER = 0
    /\ servers = <<>>
    /\ server_state = ProxyState_new
    /\ last = Last("init", 0, TRUE, None, None, 0, NoReq, NoResp, NoSnapshot)
    /\ tasks = [t \in Tasks |-> IdleTask]
    /\ locks = ProxyState_locks
    /\ calls = [c \in Callers |-> IdleCall]
    /\ conn = IdleConn
    /\ fwd = NoForward
    /\ app = IdleApp
    /\ INITIAL_LOGGING = FALSE


\* ------------------------------------------------------------------------
\* preview_proxy.rs: the control surface, one call at a time
\* ------------------------------------------------------------------------

\* ensure_engine with ProxyEngine::start and bind_on: what the cell, the
\* engines and the shared state are afterwards, and the engine returned
ensure_engine ==
    IF PREVIEW_PROXY # 0
    THEN [ok |-> TRUE, cell |-> PREVIEW_PROXY, engine |-> PREVIEW_PROXY,
          engines |-> engines, shared |-> engine_shared]
    ELSE LET port == bind_port(START_PORT, MAX_ATTEMPTS, HeldPorts(engines))
         IN  IF port = None
             THEN [ok |-> FALSE, cell |-> 0, engine |-> 0,
                   engines |-> engines, shared |-> engine_shared]
             ELSE [ok |-> TRUE, cell |-> Len(engines) + 1, engine |-> Len(engines) + 1,
                   engines |-> Append(engines, [port |-> Unwrap(port), pc |-> "serving"]),
                   shared |-> [SharedState_default EXCEPT
                                !.logging_enabled = INITIAL_LOGGING]]

\* the contexts registered for a web contents id: the id index has the id
\* and the username index has a context of that id
pp_context_of(shared, id) ==
    IF id \in DOMAIN shared.contexts_by_web_contents
    THEN {c \in MapValues(shared.contexts_by_username) : c.web_contents_id = id}
    ELSE None

pp_port == IF PREVIEW_PROXY = 0 THEN 0 ELSE engines[PREVIEW_PROXY].port

\* preview_proxy_start
preview_proxy_start ==
    /\ build = "pp"
    /\ LET e == ensure_engine
       IN  /\ PREVIEW_PROXY' = e.cell
           /\ engines' = e.engines
           /\ engine_shared' = e.shared
           /\ last' = Last("start", 0, e.ok, None, None,
                           IF e.ok THEN e.engines[e.engine].port ELSE 0,
                           NoReq, NoResp,
                           Snapshot(pp_port, HeldPorts(engines), engine_shared))
    /\ UNCHANGED <<build, more_vars, conc_vars, ps_vars>>

\* preview_proxy_configure
preview_proxy_configure(id, hex4, hex12) ==
    /\ build = "pp"
    /\ LET e == ensure_engine
           ctx == ProxyContext_new(id, hex4, hex12)
       IN  /\ PREVIEW_PROXY' = e.cell
           /\ engines' = e.engines
           /\ IF e.ok /\ id # 0
              THEN /\ engine_shared' =
                        register_context(release_by_web_contents(e.shared, id), ctx)
                   /\ last' = Last("configure", id, TRUE,
                                   Some([username |-> ctx.username,
                                         password |-> ctx.password]),
                                   pp_context_of(e.shared, id),
                                   e.engines[e.engine].port, NoReq, NoResp, NoSnapshot)
              ELSE /\ engine_shared' = e.shared
                   /\ last' = Last("configure", id, FALSE, None,
                                   pp_context_of(e.shared, id), 0,
                                   NoReq, NoResp, NoSnapshot)
    /\ UNCHANGED <<build, more_vars, conc_vars, ps_vars>>

\* preview_proxy_release
preview_proxy_release(id) ==
    /\ build = "pp"
    /\ IF PREVIEW_PROXY # 0
       THEN /\ engine_shared' = release_by_web_contents(engine_shared, id)
            /\ last' = Last("release", id, TRUE,
                            release_by_web_contents_ret(engine_shared, id),
                            pp_context_of(engine_shared, id), 0,
                            NoReq, NoResp, NoSnapshot)
       ELSE /\ engine_shared' = engine_shared
            /\ last' = Last("release", id, TRUE, None, None, 0,
                            NoReq, NoResp, NoSnapshot)
    /\ UNCHANGED <<build, more_vars, conc_vars, PREVIEW_PROXY, engines, ps_vars>>

\* preview_proxy_credentials_for_web_contents
preview_proxy_credentials_for_web_contents(id) ==
    /\ build = "pp"
    /\ last' = Last("credentials", id, TRUE,
                    IF PREVIEW_PROXY # 0
                    THEN credentials_for_web_contents(engine_shared, id)
                    ELSE None,
                    None, 0, NoReq, NoResp, NoSnapshot)
    /\ UNCHANGED <<build, more_vars, conc_vars, pp_vars, ps_vars>>

\* a request that drops the contexts of the registry once it is answered
pp_request_forgetting(header, rest) ==
    /\ build = "pp"
    /\ PREVIEW_PROXY # 0
    /\ rest \in (IF authenticate(engine_shared, header) = None
                 THEN {NoRest} ELSE RequestRest)
    /\ last' = Last("request", 0, TRUE, None, None, 0, Request(header, rest),
                    handle_request(engine_shared, Request(header, rest)), NoSnapshot)
    /\ engine_shared' = SharedState_default
    /\ UNCHANGED <<build, more_vars, conc_vars, PREVIEW_PROXY, engines, ps_vars>>

\* a request arrives on a connection of the engine's listener; what the
\* request holds besides the header is read only once it is authenticated
pp_request(header, rest) ==
    /\ build = "pp"
    /\ PREVIEW_PROXY # 0
    /\ rest \in (IF authenticate(engine_shared, header) = None
                 THEN {NoRest} ELSE RequestRest)
    /\ last' = Last("request", 0, TRUE, None, None, 0, Request(header, rest),
                    handle_request(engine_shared, Request(header, rest)), NoSnapshot)
    /\ UNCHANGED <<build, more_vars, conc_vars, pp_vars, ps_vars>>

\* ------------------------------------------------------------------------
\* lib.rs: the control surface of proxy/, one call at a time
\* (every call holds the PROXY_SERVER mutex from its first line to its last)
\* ------------------------------------------------------------------------

ps_port == IF PROXY_SERVER = 0 THEN 0 ELSE servers[PROXY_SERVER].port

\* ProxyServer::start: bind a port, spawn the serve task
ProxyServer_start ==
    LET port == bind_port(START_PORT, MAX_ATTEMPTS, HeldPorts(servers))
    IN  IF port = None THEN servers
        ELSE Append(servers, [port |-> Unwrap(port), pc |-> "spawned", signalled |-> FALSE])

\* start_preview_proxy: a new server every time; the one it replaces in
\* PROXY_SERVER is dropped, and Drop calls shutdown
start_preview_proxy ==
    /\ build = "ps"
    /\ Len(servers) < MaxStarts
    /\ LET started == ProxyServer_start
           ok == Len(started) > Len(servers)
       IN  /\ servers' = IF ok /\ PROXY_SERVER # 0
                         THEN shutdown(started, PROXY_SERVER)
                         ELSE started
           /\ PROXY_SERVER' = IF ok THEN Len(started) ELSE PROXY_SERVER
           /\ server_state' = IF ok THEN ProxyState_new ELSE server_state
           /\ last' = Last("start", 0, ok, None, None,
                           IF ok THEN started[Len(started)].port ELSE 0,
                           NoReq, NoResp,
                           Snapshot(ps_port, HeldPorts(servers), server_state))
    /\ UNCHANGED <<build, more_vars, conc_vars, pp_vars>>

\* stop_preview_proxy: take the server, shutdown, drop
stop_preview_proxy ==
    /\ build = "ps"
    /\ IF PROXY_SERVER # 0
       THEN /\ servers' = shutdown(servers, PROXY_SERVER)
            /\ PROXY_SERVER' = 0
            /\ server_state' = ProxyState_new
       ELSE UNCHANGED ps_vars
    /\ last' = Last("stop", 0, TRUE, None, None, 0, NoReq, NoResp,
                    Snapshot(ps_port, HeldPorts(servers), server_state))
    /\ UNCHANGED <<build, more_vars, conc_vars, pp_vars>>

\* configure_preview_proxy_context
configure_preview_proxy_context(username, password, web_contents_id) ==
    /\ build = "ps"
    /\ LET context == [username |-> username, password |-> password,
                       web_contents_id |-> web_contents_id]
       IN  IF PROXY_SERVER # 0
           THEN /\ server_state' = add_context(server_state, context)
                /\ last' = Last("configure", web_contents_id, TRUE,
                                Some([username |-> username, password |-> password]),
                                get_context_by_web_contents_id(server_state,
                                                               web_contents_id),
                                0, NoReq, NoResp, NoSnapshot)
           ELSE /\ server_state' = server_state
                /\ last' = Last("configure", web_contents_id, FALSE, None, None, 0,
                                NoReq, NoResp, NoSnapshot)
    /\ UNCHANGED <<build, more_vars, conc_vars, pp_vars, PROXY_SERVER, servers>>

\* release_preview_proxy_context
release_preview_proxy_context(web_contents_id) ==
    /\ build = "ps"
    /\ IF PROXY_SERVER # 0
       THEN /\ server_state' = remove_context(server_state, web_contents_id)
            /\ last' = Last("release", web_contents_id, TRUE,
                            remove_context_ret(server_state, web_contents_id),
                            get_context_by_web_contents_id(server_state,
                                                           web_contents_id),
                            0, NoReq, NoResp, NoSnapshot)
       ELSE /\ server_state' = server_state
            /\ last' = Last("release", web_contents_id, FALSE, None, None, 0,
                            NoReq, NoResp, NoSnapshot)
    /\ UNCHANGED <<build, more_vars, conc_vars, pp_vars, PROXY_SERVER, servers>>

\* get_proxy_credentials_for_web_contents
get_proxy_credentials_for_web_contents(web_contents_id) ==
    /\ build = "ps"
    /\ LET context == get_context_by_web_contents_id(server_state, web_contents_id)
       IN  last' = Last("credentials", web_contents_id, PROXY_SERVER # 0,
                        IF PROXY_SERVER # 0 /\ context # None
                        THEN Some([username |-> Unwrap(context).username,
                                   password |-> Unwrap(context).password])
                        ELSE None,
                        None, 0, NoReq, NoResp, NoSnapshot)
    /\ UNCHANGED <<build, more_vars, conc_vars, pp_vars, ps_vars>>

\* a request arrives on a connection of the server in PROXY_SERVER
ps_request(header, rest) ==
    /\ build = "ps"
    /\ PROXY_SERVER # 0
    /\ rest \in (IF authenticate_request(server_state, header) = None
                 THEN {NoRest} ELSE RequestRest)
    /\ last' = Last("request", 0, TRUE, None, None, 0, Request(header, rest),
                    ps_handle_request(server_state, Request(header, rest)), NoSnapshot)
    /\ UNCHANGED <<build, more_vars, conc_vars, pp_vars, ps_vars>>

\* ProxyServer::serve, the head of the loop: select! makes the Notified
\* future and waits on it and on accept
serve_select(i) ==
    /\ build = "ps"
    /\ servers[i].pc \in {"spawned", "accepted"}
    /\ servers' = [servers EXCEPT ![i].pc = "select"]
    /\ UNCHANGED <<build, more_vars, conc_vars, pp_vars, PROXY_SERVER, server_state, last>>

\* ProxyServer::serve, the accept branch: the connection gets its task and
\* the Notified future of this round is dropped, woken or not
serve_accept(i) ==
    /\ build = "ps"
    /\ servers[i].pc \in {"select", "notified"}
    /\ servers' = [servers EXCEPT ![i].pc = "accepted"]
    /\ UNCHANGED <<build, more_vars, conc_vars, pp_vars, PROXY_SERVER, server_state, last>>

\* ProxyServer::serve, the shutdown branch: break; the listener is dropped
serve_shutdown(i) ==
    /\ build = "ps"
    /\ servers[i].pc = "notified"
    /\ servers' = [servers EXCEPT ![i].pc = "done"]
    /\ UNCHANGED <<build, more_vars, conc_vars, pp_vars, PROXY_SERVER, server_state, last>>

\* ------------------------------------------------------------------------
\* The control surface and the requests, one operation at a time
\* ------------------------------------------------------------------------

\* the control surface with web contents ids up to n
Control(n) ==
    \/ preview_proxy_start
    \/ \E id \in IdsAndZero(n), h4 \in random_hex(USERNAME_RANDOM_BYTES),
          h12 \in random_hex(PASSWORD_RANDOM_BYTES) :
            preview_proxy_configure(id, h4, h12)
    \/ \E id \in Ids(n) : preview_proxy_release(id)
    \/ \E id \in Ids(n) : preview_proxy_credentials_for_web_contents(id)
    \/ start_preview_proxy
    \/ stop_preview_proxy
    \/ \E u \in UsernamePool, p \in PasswordPool, id \in Ids(n) :
            configure_preview_proxy_context(u, p, id)
    \/ \E id \in Ids(n) : release_preview_proxy_context(id)
    \/ \E id \in Ids(n) : get_proxy_credentials_for_web_contents(id)

Next == Control(MaxId)

Spec == Init /\ [][Next]_vars

\* ------------------------------------------------------------------------
\* The control surface and the requests
\* ------------------------------------------------------------------------

AuthNext ==
    \/ Control(MaxFewId)
    \/ \E header \in pp_Headers :
        \E rest \in RequestRest : pp_request(header, rest)
    \/ \E header \in ps_Headers :
        \E rest \in RequestRest : ps_request(header, rest)

SpecAuth == Init /\ [][AuthNext]_vars


\* ------------------------------------------------------------------------
\* The accept loop beside the control surface
\* ------------------------------------------------------------------------

LifeNext ==
    \/ Control(MaxFewId)
    \/ \E i \in 1..Len(servers) : serve_select(i)
    \/ \E i \in 1..Len(servers) : serve_accept(i)
    \/ \E i \in 1..Len(servers) : serve_shutdown(i)

SpecLife == Init /\ [][LifeNext]_vars

\* the runtime schedules the serve task whenever it can run; whether a
\* connection arrives is up to the clients
FairSpecLife ==
    /\ SpecLife
    /\ \A i \in 1..MaxStarts : WF_vars(i <= Len(servers) /\ serve_select(i))
    /\ \A i \in 1..MaxStarts : WF_vars(i <= Len(servers) /\ serve_shutdown(i))

\* ------------------------------------------------------------------------
\* Calls that run at the same time on one registry
\* preview_proxy.rs: each DashMap operation is one step
\* proxy/types.rs: each await of a lock is a step of its own
\* The operations of ProxyState are called directly here; the exported
\* functions of lib.rs hold the PROXY_SERVER mutex around their calls.
\* ------------------------------------------------------------------------

\* preview_proxy_configure up to release_by_web_contents: ensure_engine;
\* id 0 is refused and is not among the ids drawn
configure_begin(t, id, hex4, hex12) ==
    /\ build = "pp"
    /\ tasks[t].op = "idle"
    /\ LET e == ensure_engine
       IN  /\ e.ok
           /\ PREVIEW_PROXY' = e.cell
           /\ engines' = e.engines
           /\ engine_shared' = e.shared
    /\ tasks' = [tasks EXCEPT ![t] =
                    Task("configure", "remove_by_web_contents", id,
                         ProxyContext_new(id, hex4, hex12), None, "none")]
    /\ UNCHANGED <<build, more_vars, ps_vars, last, locks>>

\* preview_proxy_release up to release_by_web_contents
release_begin(t, id) ==
    /\ build = "pp"
    /\ tasks[t].op = "idle"
    /\ PREVIEW_PROXY # 0
    /\ tasks' = [tasks EXCEPT ![t] =
                    Task("release", "remove_by_web_contents", id, NoContext, None, "none")]
    /\ UNCHANGED <<build, more_vars, pp_vars, ps_vars, last, locks>>

\* where a call stands when release_by_web_contents has returned
AfterRelease(task) ==
    IF task.op = "configure"
    THEN [task EXCEPT !.pc = "insert_by_web_contents", !.found = None]
    ELSE IdleTask

\* release_by_web_contents: contexts_by_web_contents.remove(&id)?
release_remove_by_web_contents(t) ==
    /\ build = "pp"
    /\ tasks[t].pc = "remove_by_web_contents"
    /\ LET found == MapGet(engine_shared.contexts_by_web_contents, tasks[t].id)
       IN  /\ engine_shared' =
                [engine_shared EXCEPT !.contexts_by_web_contents =
                    MapRemove(@, tasks[t].id)]
           /\ tasks' = [tasks EXCEPT ![t] =
                          IF found = None THEN AfterRelease(@)
                          ELSE [@ EXCEPT !.pc = "remove_by_username", !.found = found]]
    /\ UNCHANGED <<build, more_vars, PREVIEW_PROXY, engines, ps_vars, last, locks>>

\* release_by_web_contents: contexts_by_username.remove(&username)
release_remove_by_username(t) ==
    /\ build = "pp"
    /\ tasks[t].pc = "remove_by_username"
    /\ engine_shared' =
          [engine_shared EXCEPT !.contexts_by_username =
              MapRemove(@, Unwrap(tasks[t].found))]
    /\ tasks' = [tasks EXCEPT ![t] = AfterRelease(@)]
    /\ UNCHANGED <<build, more_vars, PREVIEW_PROXY, engines, ps_vars, last, locks>>

\* register_context: contexts_by_web_contents.insert
register_insert_by_web_contents(t) ==
    /\ build = "pp"
    /\ tasks[t].pc = "insert_by_web_contents"
    /\ engine_shared' =
          [engine_shared EXCEPT !.contexts_by_web_contents =
              MapInsert(@, tasks[t].id, tasks[t].ctx.username)]
    /\ tasks' = [tasks EXCEPT ![t].pc = "insert_by_username"]
    /\ UNCHANGED <<build, more_vars, PREVIEW_PROXY, engines, ps_vars, last, locks>>

\* register_context: contexts_by_username.insert
register_insert_by_username(t) ==
    /\ build = "pp"
    /\ tasks[t].pc = "insert_by_username"
    /\ engine_shared' =
          [engine_shared EXCEPT !.contexts_by_username =
              MapInsert(@, tasks[t].ctx.username, tasks[t].ctx)]
    /\ tasks' = [tasks EXCEPT ![t] = IdleTask]
    /\ UNCHANGED <<build, more_vars, PREVIEW_PROXY, engines, ps_vars, last, locks>>

\* write() for the calls that change the registry, read() for the lookups
Mode(task) ==
    IF task.op \in {"add_context", "remove_context"} THEN "write" ELSE "read"

RwLock_free(lock, mode) ==
    IF mode = "write" THEN lock.writer = 0 /\ lock.readers = {} ELSE lock.writer = 0

RwLock_hold(lock, t, mode) ==
    IF mode = "write" THEN [lock EXCEPT !.writer = t]
    ELSE [lock EXCEPT !.readers = @ \cup {t}]

\* a guard is dropped
RwLock_release(lock, t) ==
    [lock EXCEPT !.writer = IF @ = t THEN 0 ELSE @, !.readers = @ \ {t}]

\* the guards of a call are dropped when it returns
DropGuards(t) == [l \in DOMAIN locks |-> RwLock_release(locks[l], t)]

\* ProxyState::add_context is called
add_context_begin(t, context) ==
    /\ build = "ps"
    /\ PROXY_SERVER # 0
    /\ tasks[t].op = "idle"
    /\ tasks' = [tasks EXCEPT ![t] =
                    Task("add_context", "acquire", context.web_contents_id,
                         context, None, "by_username")]
    /\ UNCHANGED <<build, more_vars, pp_vars, ps_vars, last, locks>>

\* ProxyState::remove_context is called
remove_context_begin(t, web_contents_id) ==
    /\ build = "ps"
    /\ PROXY_SERVER # 0
    /\ tasks[t].op = "idle"
    /\ tasks' = [tasks EXCEPT ![t] =
                    Task("remove_context", "acquire", web_contents_id,
                         NoContext, None, "by_web_contents_id")]
    /\ UNCHANGED <<build, more_vars, pp_vars, ps_vars, last, locks>>

\* ProxyState::get_context_by_username is called
get_context_by_username_begin(t, username) ==
    /\ build = "ps"
    /\ PROXY_SERVER # 0
    /\ tasks[t].op = "idle"
    /\ tasks' = [tasks EXCEPT ![t] =
                    Task("get_context_by_username", "acquire", 0,
                         [NoContext EXCEPT !.username = username], None,
                         "by_username")]
    /\ UNCHANGED <<build, more_vars, pp_vars, ps_vars, last, locks>>

\* ProxyState::get_context_by_web_contents_id is called
get_context_by_web_contents_id_begin(t, id) ==
    /\ build = "ps"
    /\ PROXY_SERVER # 0
    /\ tasks[t].op = "idle"
    /\ tasks' = [tasks EXCEPT ![t] =
                    Task("get_context_by_web_contents_id", "acquire", id,
                         NoContext, None, "by_web_contents_id")]
    /\ UNCHANGED <<build, more_vars, pp_vars, ps_vars, last, locks>>

\* RwLock::read().await and RwLock::write().await, the first poll: the lock
\* is taken when it is free and nobody waits for it, else the task queues
rwlock_acquire(t) ==
    /\ build = "ps"
    /\ tasks[t].pc = "acquire"
    /\ LET w == tasks[t].want
           mode == Mode(tasks[t])
       IN  IF locks[w].queue = <<>> /\ RwLock_free(locks[w], mode)
           THEN /\ locks' = [locks EXCEPT ![w] = RwLock_hold(@, t, mode)]
                /\ tasks' = [tasks EXCEPT ![t].pc = "held"]
           ELSE /\ locks' = [locks EXCEPT ![w].queue = Append(@, t)]
                /\ tasks' = [tasks EXCEPT ![t].pc = "wait"]
    /\ UNCHANGED <<build, more_vars, pp_vars, ps_vars, last>>

\* a lock that came free passes to the task at the head of its queue
rwlock_wake(t) ==
    /\ build = "ps"
    /\ tasks[t].pc = "wait"
    /\ LET w == tasks[t].want
           mode == Mode(tasks[t])
       IN  /\ locks[w].queue # <<>>
           /\ Head(locks[w].queue) = t
           /\ RwLock_free(locks[w], mode)
           /\ locks' = [locks EXCEPT ![w] =
                          RwLock_hold([@ EXCEPT !.queue = Tail(@)], t, mode)]
    /\ tasks' = [tasks EXCEPT ![t].pc = "held"]
    /\ UNCHANGED <<build, more_vars, pp_vars, ps_vars, last>>

\* ProxyState::add_context behind each of its two awaits: with
\* by_username held it asks for by_id; with both it inserts and returns
add_context_run(t) ==
    /\ build = "ps"
    /\ tasks[t].op = "add_context"
    /\ tasks[t].pc = "held"
    /\ IF tasks[t].want = "by_username"
       THEN /\ tasks' = [tasks EXCEPT ![t].pc = "acquire",
                                      ![t].want = "by_web_contents_id"]
            /\ UNCHANGED <<locks, server_state>>
       ELSE /\ server_state' = add_context(server_state, tasks[t].ctx)
            /\ locks' = DropGuards(t)
            /\ tasks' = [tasks EXCEPT ![t] = IdleTask]
    /\ UNCHANGED <<build, more_vars, pp_vars, PROXY_SERVER, servers, last>>

\* ProxyState::remove_context behind each of its two awaits: with by_id
\* held it removes the id and, if there was one, asks for by_username; with
\* both it removes the username and returns
remove_context_run(t) ==
    /\ build = "ps"
    /\ tasks[t].op = "remove_context"
    /\ tasks[t].pc = "held"
    /\ IF tasks[t].want = "by_web_contents_id"
       THEN LET found == MapGet(server_state.contexts_by_web_contents_id, tasks[t].id)
            IN  IF found = None
                THEN /\ locks' = DropGuards(t)
                     /\ tasks' = [tasks EXCEPT ![t] = IdleTask]
                     /\ UNCHANGED server_state
                ELSE /\ server_state' =
                            [server_state EXCEPT !.contexts_by_web_contents_id =
                                MapRemove(@, tasks[t].id)]
                     /\ tasks' = [tasks EXCEPT ![t].pc = "acquire",
                                               ![t].want = "by_username",
                                               ![t].found = found]
                     /\ UNCHANGED locks
       ELSE /\ server_state' =
                    [server_state EXCEPT !.contexts_by_username =
                        MapRemove(@, Unwrap(tasks[t].found).username)]
            /\ locks' = DropGuards(t)
            /\ tasks' = [tasks EXCEPT ![t] = IdleTask]
    /\ UNCHANGED <<build, more_vars, pp_vars, PROXY_SERVER, servers, last>>

\* get_context_by_username and get_context_by_web_contents_id behind their
\* await: read, drop the guard, return
get_context_run(t) ==
    /\ build = "ps"
    /\ tasks[t].op \in {"get_context_by_username", "get_context_by_web_contents_id"}
    /\ tasks[t].pc = "held"
    /\ locks' = DropGuards(t)
    /\ tasks' = [tasks EXCEPT ![t] = IdleTask]
    /\ UNCHANGED <<build, more_vars, pp_vars, ps_vars, last>>

\* the contexts the callers of add_context pass
SuppliedContexts(n) ==
    {[username |-> u, password |-> p, web_contents_id |-> id] :
        u \in UsernamePool, p \in PasswordPool, id \in Ids(n)}

ConcNext ==
    \/ PROXY_SERVER = 0 /\ start_preview_proxy
    \/ \E t \in Tasks, id \in Ids(MaxFewId) :
         \E h4 \in random_hex(USERNAME_RANDOM_BYTES),
            h12 \in random_hex(PASSWORD_RANDOM_BYTES) : configure_begin(t, id, h4, h12)
    \/ \E t \in Tasks, id \in Ids(MaxFewId) : release_begin(t, id)
    \/ \E t \in Tasks : release_remove_by_web_contents(t)
    \/ \E t \in Tasks : release_remove_by_username(t)
    \/ \E t \in Tasks : register_insert_by_web_contents(t)
    \/ \E t \in Tasks : register_insert_by_username(t)
    \/ \E t \in Tasks, context \in SuppliedContexts(MaxFewId) : add_context_begin(t, context)
    \/ \E t \in Tasks, id \in Ids(MaxFewId) : remove_context_begin(t, id)
    \/ \E t \in Tasks, username \in UsernamePool : get_context_by_username_begin(t, username)
    \/ \E t \in Tasks, id \in Ids(MaxFewId) : get_context_by_web_contents_id_begin(t, id)
    \/ \E t \in Tasks : rwlock_acquire(t)
    \/ \E t \in Tasks : rwlock_wake(t)
    \/ \E t \in Tasks : add_context_run(t)
    \/ \E t \in Tasks : remove_context_run(t)
    \/ \E t \in Tasks : get_context_run(t)

SpecConc == Init /\ [][ConcNext]_vars

\* ------------------------------------------------------------------------
\* What the claims speak of
\* ------------------------------------------------------------------------

\* the contexts of the registry, whichever index holds them
RegisteredContexts ==
    IF build = "pp"
    THEN MapValues(engine_shared.contexts_by_username)
    ELSE MapValues(server_state.contexts_by_username)
            \cup MapValues(server_state.contexts_by_web_contents_id)

RegisteredPairs == {<<c.username, c.password>> : c \in RegisteredContexts}

\* the (username, password) a header carries by the Basic scheme of HTTP:
\* the scheme whatever its case, blanks, base64 of UTF-8 of user ":" password
PresentedPair(h) ==
    IF /\ h.present /\ h.ascii /\ ToAsciiLower(h.scheme) = "basic" /\ h.gap >= 1
       /\ h.b64 /\ h.utf8 /\ \E i \in 1..Len(h.text) : h.text[i] = ":"
    THEN LET i == CHOOSE k \in 1..Len(h.text) :
                    h.text[k] = ":" /\ \A j \in 1..(k - 1) : h.text[j] # ":"
         IN  Some(<<SubSeq(h.text, 1, i - 1), SubSeq(h.text, i + 1, Len(h.text))>>)
    ELSE None

\* what presenting (username, password) to the running build resolves to
Authenticates(username, password) ==
    IF build = "pp"
    THEN authenticate(engine_shared, BasicHeader(username, password))
    ELSE authenticate_request(server_state, BasicHeader(username, password))

\* the response of the running build to a request with these credentials
Responds(username, password, rest) ==
    IF build = "pp"
    THEN handle_request(engine_shared, Request(BasicHeader(username, password), rest))
    ELSE ps_handle_request(server_state, Request(BasicHeader(username, password), rest))

\* C1: a request whose Proxy-Authorization header is absent, malformed or
\* carries a pair that is not a registered (username, password) is answered
\* with 407, and nothing is requested or dialed upstream.
C1_AuthenticationCompleteness ==
    (last.op = "request"
        /\ (PresentedPair(last.req.header) = None
            \/ Unwrap(PresentedPair(last.req.header)) \notin RegisteredPairs))
    => (last.resp.status = 407 /\ last.resp.upstream = "none")

\* a registered username presented with another password was refused
C1_Witness ==
    /\ last.op = "request"
    /\ PresentedPair(last.req.header) # None
    /\ \E c \in RegisteredContexts :
          /\ Unwrap(PresentedPair(last.req.header))[1] = c.username
          /\ Unwrap(PresentedPair(last.req.header))[2] # c.password
    /\ Unwrap(PresentedPair(last.req.header)) \notin RegisteredPairs
    /\ last.resp.status = 407

pp_Bijection(shared) ==
    /\ \A u \in DOMAIN shared.contexts_by_username :
          LET c == shared.contexts_by_username[u]
          IN  /\ c.username = u
              /\ c.web_contents_id \in DOMAIN shared.contexts_by_web_contents
              /\ shared.contexts_by_web_contents[c.web_contents_id] = u
    /\ \A id \in DOMAIN shared.contexts_by_web_contents :
          LET u == shared.contexts_by_web_contents[id]
          IN  /\ u \in DOMAIN shared.contexts_by_username
              /\ shared.contexts_by_username[u].web_contents_id = id

ps_Bijection(state) ==
    /\ \A u \in DOMAIN state.contexts_by_username :
          LET c == state.contexts_by_username[u]
          IN  /\ c.username = u
              /\ c.web_contents_id \in DOMAIN state.contexts_by_web_contents_id
              /\ state.contexts_by_web_contents_id[c.web_contents_id].username = u
    /\ \A id \in DOMAIN state.contexts_by_web_contents_id :
          LET c == state.contexts_by_web_contents_id[id]
          IN  /\ c.web_contents_id = id
              /\ c.username \in DOMAIN state.contexts_by_username
              /\ state.contexts_by_username[c.username].web_contents_id = id

Bijection == IF build = "pp" THEN pp_Bijection(engine_shared) ELSE ps_Bijection(server_state)

\* C2: after any sequence of register and release operations run one at a
\* time, the username index and the context id index describe the same
\* contexts, each entry of one matched by exactly one entry of the other.
C2_RegistryBijection == Bijection

\* C3: when register is called for a context id that has a registration,
\* the previous username leaves the username index: afterwards the previous
\* (username, password) does not authenticate, and only the new credentials
\* resolve to that context id.
C3_ReRegistrationEvicts ==
    (last.op = "configure" /\ last.ok /\ last.pre # None)
    => /\ \A prev \in last.pre :
            <<prev.username, prev.password>>
                    # <<Unwrap(last.ret).username, Unwrap(last.ret).password>>
            => Authenticates(prev.username, prev.password) = None
       /\ \A c \in RegisteredContexts :
            (c.web_contents_id = last.id
                /\ Authenticates(c.username, c.password) # None)
            => c.username = Unwrap(last.ret).username

\* the lookup by context id of the running build
LookupById(id) ==
    IF build = "pp"
    THEN credentials_for_web_contents(engine_shared, id)
    ELSE get_context_by_web_contents_id(server_state, id)

\* the lookup by username of the running build
LookupByUsername(username) ==
    IF build = "pp"
    THEN context_for_username(engine_shared, username)
    ELSE get_context_by_username(server_state, username)

\* what a release of id would return now
ReleaseWouldReturn(id) ==
    IF build = "pp"
    THEN release_by_web_contents_ret(engine_shared, id)
    ELSE remove_context_ret(server_state, id)

\* the id index of the build had the id before the last operation
LiveBefore == last.pre # None

\* C4: release(context_id) returns true exactly when a registration existed
\* for context_id; afterwards the lookups by that context id and by the
\* released username return none, a request with the released credentials
\* gets 407, and a second release of the context id returns false.
C4_ReleaseContract ==
    (last.op = "release" /\ last.ok)
    => /\ (last.ret # None) <=> LiveBefore
       /\ LookupById(last.id) = None
       /\ \A c \in last.pre :
            /\ LookupByUsername(c.username) = None
            /\ \A rest \in RequestRest :
                  Responds(c.username, c.password, rest) = Response(407, "none")
       /\ ReleaseWouldReturn(last.id) = None

\* a release of a registered context returned it
C4_Witness ==
    /\ last.op = "release"
    /\ last.ok
    /\ LiveBefore
    /\ last.ret # None
    /\ RegisteredContexts # {}

\* C10: after one successful start, a further start returns the port that is
\* bound already, binds no further listener and leaves the registry as it is.
C10_StartIdempotent ==
    (last.op = "start" /\ last.before.port # 0)
    => /\ last.ok
       /\ last.port = last.before.port
       /\ (IF build = "pp" THEN HeldPorts(engines) ELSE HeldPorts(servers))
            = last.before.ports
       /\ (IF build = "pp" THEN engine_shared ELSE server_state)
            = last.before.registry

\* C9: when stop returns, the listener no longer holds the port it was
\* bound to, so that a start on that port succeeds.
C9_PortReleasedAtStop ==
    (last.op = "stop" /\ last.before.port # 0)
    => /\ last.before.port \notin HeldPorts(servers)
       /\ bind_port(last.before.port, 1, HeldPorts(servers)) # None

\* C8: once shutdown was called on a server, or its handle dropped, the
\* accept loop comes to see the signal and returns.
C8_ShutdownNeverLost ==
    \A i \in 1..MaxStarts :
        (i <= Len(servers) /\ servers[i].signalled)
            ~> (i <= Len(servers) /\ servers[i].pc = "done")

\* the calls in progress
Running == {t \in Tasks : tasks[t].op # "idle"}

\* C5: however register and release calls that run at the same time
\* interleave, once all of them have returned the two indices are a
\* bijection: no username is left that the context id index does not reach.
C5_ConcurrentConsistency == (Running = {}) => Bijection

\* what a reader that runs now is answered: the lookup by id returns none
SeesIdAbsent(id) ==
    IF build = "pp"
    THEN credentials_for_web_contents(engine_shared, id) = None
    ELSE /\ locks.by_web_contents_id.writer = 0
         /\ get_context_by_web_contents_id(server_state, id) = None

\* the lookup by id returns these credentials
SeesIdPresent(c) ==
    IF build = "pp"
    THEN credentials_for_web_contents(engine_shared, c.web_contents_id)
            = Some([username |-> c.username, password |-> c.password])
    ELSE /\ locks.by_web_contents_id.writer = 0
         /\ get_context_by_web_contents_id(server_state, c.web_contents_id) = Some(c)

\* a request with these credentials is authenticated
SeesAuthenticated(c) ==
    IF build = "pp"
    THEN authenticate(engine_shared, BasicHeader(c.username, c.password)) # None
    ELSE /\ locks.by_username.writer = 0
         /\ authenticate_request(server_state, BasicHeader(c.username, c.password)) # None

\* a request with these credentials is refused
SeesRefused(c) ==
    IF build = "pp"
    THEN authenticate(engine_shared, BasicHeader(c.username, c.password)) = None
    ELSE /\ locks.by_username.writer = 0
         /\ authenticate_request(server_state, BasicHeader(c.username, c.password)) = None

\* C6: while a release of a context id is in progress, and nothing else
\* changes the registry, no reader is answered none by the lookup by that id
\* while the credentials of the context still authenticate, nor is it
\* answered the credentials by the lookup while they are refused.
C6_ReleaseAtomic ==
    \A t \in Tasks :
        (tasks[t].op \in {"release", "remove_context"}
            /\ \A o \in Tasks \ {t} : tasks[o].op = "idle")
        => \A c \in RegisteredContexts :
              c.web_contents_id = tasks[t].id
              => /\ ~(SeesIdAbsent(c.web_contents_id) /\ SeesAuthenticated(c))
                 /\ ~(SeesIdPresent(c) /\ SeesRefused(c))

\* the call can take its next step
CanStep(t) ==
    \/ tasks[t].pc # "wait"
    \/ /\ locks[tasks[t].want].queue # <<>>
       /\ Head(locks[tasks[t].want].queue) = t
       /\ RwLock_free(locks[tasks[t].want], Mode(tasks[t]))

\* C7: the calls on one ProxyState never deadlock: while calls are in
\* progress one of them can go on, so that each of them returns.
C7_NoDeadlock == (Running # {}) => \E t \in Running : CanStep(t)

\* ------------------------------------------------------------------------
\* Start and configure calls that run at the same time
\* preview_proxy.rs: ensure_engine reads the OnceCell, starts an engine and
\* sets the cell as three steps
\* lib.rs: start_preview_proxy starts a server and then takes the mutex
\* ------------------------------------------------------------------------

\* preview_proxy_start is called
start_call(c) ==
    /\ build = "pp"
    /\ calls[c].op = "idle"
    /\ calls' = [calls EXCEPT ![c] =
                    Call("start", "get", 0, NoContext, 0, SharedState_default, 0)]
    /\ UNCHANGED <<build, pp_vars, ps_vars, last, conc_vars, io_vars>>

\* preview_proxy_configure is called
configure_call(c, id, hex4, hex12) ==
    /\ build = "pp"
    /\ calls[c].op = "idle"
    /\ calls' = [calls EXCEPT ![c] =
                    Call("configure", "get", id, ProxyContext_new(id, hex4, hex12),
                         0, SharedState_default, 0)]
    /\ UNCHANGED <<build, pp_vars, ps_vars, last, conc_vars, io_vars>>

\* ensure_engine: PREVIEW_PROXY.get()
ensure_engine_get(c) ==
    /\ build = "pp"
    /\ calls[c].pc = "get"
    /\ calls' = [calls EXCEPT ![c] =
                    IF PREVIEW_PROXY # 0
                    THEN [@ EXCEPT !.pc = "after", !.engine = PREVIEW_PROXY]
                    ELSE [@ EXCEPT !.pc = "start"]]
    /\ UNCHANGED <<build, pp_vars, ps_vars, last, conc_vars, io_vars>>

\* ensure_engine: ProxyEngine::start().await?
ensure_engine_start(c) ==
    /\ build = "pp"
    /\ calls[c].pc = "start"
    /\ LET port == bind_port(START_PORT, MAX_ATTEMPTS, HeldPorts(engines))
       IN  IF port = None
           THEN /\ calls' = [calls EXCEPT ![c].pc = "failed"]
                /\ UNCHANGED engines
           ELSE /\ engines' = Append(engines, [port |-> Unwrap(port), pc |-> "serving"])
                /\ calls' = [calls EXCEPT
                                ![c].pc = "set",
                                ![c].engine = Len(engines) + 1,
                                ![c].own = [SharedState_default EXCEPT
                                                !.logging_enabled = INITIAL_LOGGING]]
    /\ UNCHANGED <<build, PREVIEW_PROXY, engine_shared, ps_vars, last, conc_vars, io_vars>>

\* ensure_engine: let _ = PREVIEW_PROXY.set(engine.clone()); Ok(engine)
ensure_engine_set(c) ==
    /\ build = "pp"
    /\ calls[c].pc = "set"
    /\ IF PREVIEW_PROXY = 0
       THEN /\ PREVIEW_PROXY' = calls[c].engine
            /\ engine_shared' = calls[c].own
       ELSE UNCHANGED <<PREVIEW_PROXY, engine_shared>>
    /\ calls' = [calls EXCEPT ![c].pc = "after"]
    /\ UNCHANGED <<build, engines, ps_vars, last, conc_vars, io_vars>>

\* the Arc a caller holds is dropped: an engine that is not in the cell is
\* dropped with it, and Drop cancels its token
DropEngine(engs, i) ==
    IF i # PREVIEW_PROXY /\ engs[i].pc = "serving"
    THEN [engs EXCEPT ![i].pc = "cancelled"]
    ELSE engs

\* preview_proxy_start behind ensure_engine: Ok(engine.port())
start_return(c) ==
    /\ build = "pp"
    /\ calls[c].op = "start"
    /\ calls[c].pc = "after"
    /\ calls' = [calls EXCEPT ![c].pc = "done",
                              ![c].port = engines[calls[c].engine].port]
    /\ engines' = DropEngine(engines, calls[c].engine)
    /\ UNCHANGED <<build, PREVIEW_PROXY, engine_shared, ps_vars, last, conc_vars, io_vars>>

\* preview_proxy_configure behind ensure_engine: release_by_web_contents and
\* register_context on engine.shared(), and the port of that engine
configure_register(c) ==
    /\ build = "pp"
    /\ calls[c].op = "configure"
    /\ calls[c].pc = "after"
    /\ IF calls[c].engine = PREVIEW_PROXY
       THEN /\ engine_shared' =
                  register_context(
                      release_by_web_contents(engine_shared, calls[c].id), calls[c].ctx)
            /\ calls' = [calls EXCEPT ![c].pc = "done",
                                      ![c].port = engines[calls[c].engine].port]
       ELSE /\ calls' = [calls EXCEPT
                            ![c].pc = "done",
                            ![c].port = engines[calls[c].engine].port,
                            ![c].own = register_context(
                                release_by_web_contents(@, calls[c].id), calls[c].ctx)]
            /\ UNCHANGED engine_shared
    /\ engines' = DropEngine(engines, calls[c].engine)
    /\ UNCHANGED <<build, PREVIEW_PROXY, ps_vars, last, conc_vars, io_vars>>

\* the server task of a cancelled engine ends and its listener closes
engine_task_exit(i) ==
    /\ build = "pp"
    /\ engines[i].pc = "cancelled"
    /\ engines' = [engines EXCEPT ![i].pc = "done"]
    /\ UNCHANGED <<build, more_vars, PREVIEW_PROXY, engine_shared, ps_vars, last, conc_vars>>

\* start_preview_proxy is called: ProxyServer::start(config).await
start_preview_proxy_bind(c) ==
    /\ build = "ps"
    /\ calls[c].op = "idle"
    /\ LET started == ProxyServer_start
       IN  IF Len(started) = Len(servers)
           THEN /\ calls' = [calls EXCEPT ![c] =
                        Call("start", "failed", 0, NoContext, 0, SharedState_default, 0)]
                /\ UNCHANGED servers
           ELSE /\ servers' = started
                /\ calls' = [calls EXCEPT ![c] =
                        Call("start", "store", 0, NoContext, Len(started),
                             SharedState_default, 0)]
    /\ UNCHANGED <<build, pp_vars, PROXY_SERVER, server_state, last, conc_vars, io_vars>>

\* start_preview_proxy: *proxy_server = Some(server); the server that was
\* there is dropped
start_preview_proxy_store(c) ==
    /\ build = "ps"
    /\ calls[c].pc = "store"
    /\ servers' = IF PROXY_SERVER # 0 THEN shutdown(servers, PROXY_SERVER) ELSE servers
    /\ PROXY_SERVER' = calls[c].engine
    /\ server_state' = ProxyState_new
    /\ calls' = [calls EXCEPT ![c].pc = "done",
                              ![c].port = servers[calls[c].engine].port]
    /\ UNCHANGED <<build, pp_vars, last, conc_vars, io_vars>>

StartNext ==
    \/ \E c \in Callers : start_call(c)
    \/ \E c \in Callers, id \in Ids(MaxFewId) :
         \E h4 \in random_hex(USERNAME_RANDOM_BYTES),
            h12 \in random_hex(PASSWORD_RANDOM_BYTES) : configure_call(c, id, h4, h12)
    \/ \E c \in Callers : ensure_engine_get(c)
    \/ \E c \in Callers : ensure_engine_start(c)
    \/ \E c \in Callers : ensure_engine_set(c)
    \/ \E c \in Callers : start_return(c)
    \/ \E c \in Callers : configure_register(c)
    \/ \E i \in 1..Len(engines) : engine_task_exit(i)
    \/ \E c \in Callers : start_preview_proxy_bind(c)
    \/ \E c \in Callers : start_preview_proxy_store(c)

SpecStart == Init /\ [][StartNext]_vars

\* the calls that have returned
Returned == {c \in Callers : calls[c].pc = "done"}

\* the port of the engine or server that the process keeps
SurvivingPort == IF build = "pp" THEN pp_port ELSE ps_port

\* C11: when start and configure calls run at the same time before any
\* engine exists, every engine but one is shut down, every caller is
\* returned the port of the engine that is kept, and every context a caller
\* registered is in the registry of that engine.
C11_ConcurrentStartSafe ==
    /\ (\A c \in Callers : calls[c].pc \in {"idle", "done"})
        => IF build = "pp"
           THEN \A i \in 1..Len(engines) :
                    i # PREVIEW_PROXY => engines[i].pc \in {"cancelled", "done"}
           ELSE \A i \in 1..Len(servers) :
                    i # PROXY_SERVER => servers[i].signalled
    /\ \A c \in Returned :
          /\ calls[c].port = SurvivingPort
          /\ calls[c].own = SharedState_default

\* ------------------------------------------------------------------------
\* The CONNECT and upgrade handlers with their tunnel tasks, step by step
\* ------------------------------------------------------------------------

conn_frame == <<build, pp_vars, ps_vars, last, conc_vars, calls, fwd, app, INITIAL_LOGGING>>

\* a request reaches a handler once the listener runs and, where requests
\* are authenticated, a context is registered to authenticate as
CanHandle ==
    CASE build = "pp" ->
            PREVIEW_PROXY # 0 /\ DOMAIN engine_shared.contexts_by_username # {}
      [] build = "ps" ->
            PROXY_SERVER # 0 /\ DOMAIN server_state.contexts_by_username # {}
      [] OTHER -> TRUE

\* handle_request hands an authenticated request to its handler
conn_accept(req) ==
    /\ CanHandle
    /\ conn.pc \in {"idle", "done"}
    /\ conn' = Conn("handler", req, None, <<>>, FALSE, FALSE)
    /\ UNCHANGED conn_frame

\* handle_connect of preview_proxy.rs and of cmux-proxy: build the 200,
\* spawn the tunnel task, return the 200
handle_connect_respond ==
    /\ build \in {"pp", "cp"}
    /\ conn.pc = "handler"
    /\ conn.req.method = "CONNECT"
    /\ conn' = IF ~conn.req.target
               THEN [conn EXCEPT !.pc = "done",
                                 !.resp = Some(response_with(400)),
                                 !.events = <<"response">>]
               ELSE [conn EXCEPT !.pc = "await_upgrade",
                                 !.resp = Some(ClientResponse(200,
                                            << <<CONNECTION, UPGRADE>> >>, "empty")),
                                 !.events = <<"spawn", "response">>]
    /\ UNCHANGED conn_frame

\* handle_connect of proxy/handlers.rs: dial, then spawn the tunnel task
\* and return the 200
ps_handle_connect_dial ==
    /\ build = "ps"
    /\ conn.pc = "handler"
    /\ conn.req.method = "CONNECT"
    /\ conn' = IF ~conn.req.target
               THEN [conn EXCEPT !.pc = "done",
                                 !.resp = Some(error_response(400)),
                                 !.events = <<"response">>]
               ELSE IF ~conn.req.up_ok
               THEN [conn EXCEPT !.pc = "done",
                                 !.resp = Some(error_response(502)),
                                 !.events = <<"dial", "response">>]
               ELSE [conn EXCEPT !.pc = "await_upgrade",
                                 !.resp = Some(ClientResponse(200, <<>>, "empty")),
                                 !.events = <<"dial", "spawn", "response">>]
    /\ UNCHANGED conn_frame

\* handle_upgrade of preview_proxy.rs, once the upstream has answered
pp_upgrade_response(req) ==
    IF req.up_status # 101
    THEN ClientResponse(req.up_status,
                        insert_each(req.up_headers, {}, <<>>), "upstream")
    ELSE ClientResponse(101,
                        HeaderMap_insert(insert_each(req.up_headers, {}, <<>>),
                                         CONNECTION, UPGRADE),
                        "empty")

\* handle_upgrade of cmux-proxy, once the upstream has answered
cp_upgrade_response(req) ==
    IF req.up_status # 101
    THEN ClientResponse(req.up_status,
                        insert_each(req.up_headers, {}, <<>>), "upstream")
    ELSE ClientResponse(101,
                        HeaderMap_insert(insert_each(req.up_headers, {}, <<>>),
                                         CONNECTION, UPGRADE),
                        "empty")

\* handle_upgrade of proxy/handlers.rs: the upstream response itself
ps_upgrade_response(req) ==
    ClientResponse(req.up_status, req.up_headers, "upstream")

\* whether handle_upgrade spawns a tunnel task for the upstream's answer
upgrade_spawns(b, req) == b # "ps" /\ req.up_status = 101

\* handle_upgrade: forward the request, answer the client
handle_upgrade_forward ==
    /\ conn.pc = "handler"
    /\ conn.req.method # "CONNECT"
    /\ conn.req.upgrade
    /\ conn' = IF ~conn.req.target
               THEN [conn EXCEPT !.pc = "done",
                                 !.resp = Some(IF build = "ps" THEN error_response(400) ELSE response_with(400)),
                                 !.events = <<"response">>]
               ELSE IF ~conn.req.up_ok
               THEN [conn EXCEPT !.pc = "done",
                                 !.resp = Some(IF build = "ps" THEN error_response(502) ELSE response_with(502)),
                                 !.events = <<"request", "response">>]
               ELSE [conn EXCEPT
                        !.pc = IF upgrade_spawns(build, conn.req)
                               THEN "await_upgrade" ELSE "done",
                        !.resp = Some(CASE build = "pp" -> pp_upgrade_response(conn.req)
                                        [] build = "ps" -> ps_upgrade_response(conn.req)
                                        [] OTHER -> cp_upgrade_response(conn.req)),
                        !.events = IF upgrade_spawns(build, conn.req)
                                   THEN <<"request", "spawn", "response">>
                                   ELSE <<"request", "response">>]
    /\ UNCHANGED conn_frame

\* the task's hyper::upgrade::on: the streams are there once the response
\* has been written; a CONNECT task of pp and cp has yet to dial
upgrade_on ==
    /\ conn.pc = "await_upgrade"
    /\ conn' = [conn EXCEPT
                    !.pc = IF conn.req.method = "CONNECT" /\ build # "ps"
                           THEN "dial" ELSE "copy",
                    !.events = Append(@, "upgraded")]
    /\ UNCHANGED conn_frame

\* the task's hyper::upgrade::on fails: the task logs and ends
upgrade_on_err ==
    /\ conn.pc = "await_upgrade"
    /\ conn' = [conn EXCEPT !.pc = "done", !.events = Append(@, "upgrade_error")]
    /\ UNCHANGED conn_frame

\* the CONNECT task of pp and cp: TcpStream::connect, and on failure the
\* 502 written onto the client stream before its shutdown
task_connect ==
    /\ build \in {"pp", "cp"}
    /\ conn.pc = "dial"
    /\ conn' = IF conn.req.up_ok
               THEN [conn EXCEPT !.pc = "copy", !.events = Append(@, "dial")]
               ELSE [conn EXCEPT !.pc = "done",
                        !.events = @ \o <<"dial", "write_502", "shutdown_client">>]
    /\ UNCHANGED conn_frame

\* the client closes its side of an established tunnel
client_close ==
    /\ conn.pc = "copy"
    /\ ~conn.client_eof
    /\ conn' = [conn EXCEPT !.client_eof = TRUE]
    /\ UNCHANGED conn_frame

\* the upstream closes its side of an established tunnel
upstream_close ==
    /\ conn.pc = "copy"
    /\ ~conn.upstream_eof
    /\ conn' = [conn EXCEPT !.upstream_eof = TRUE]
    /\ UNCHANGED conn_frame

\* when the copy of the tunnel returns: tokio::select! over the two copies
\* (ps) when either has ended; copy_bidirectional (pp, cp CONNECT) and
\* tokio::try_join! over the two copies (cp upgrade) when both have
copy_returns(b, c) ==
    IF b = "ps"
    THEN c.client_eof \/ c.upstream_eof
    ELSE c.client_eof /\ c.upstream_eof

\* the end of the tunnel task: both streams are shut down, or dropped
\* where the task names no shutdown (cp upgrade)
tunnel_end ==
    /\ conn.pc = "copy"
    /\ copy_returns(build, conn)
    /\ conn' = [conn EXCEPT
                    !.pc = "done",
                    !.events = @ \o
                        (IF build = "cp" /\ conn.req.method # "CONNECT"
                         THEN <<"copy_end", "drop_client", "drop_upstream">>
                         ELSE <<"copy_end", "shutdown_client", "shutdown_upstream">>)]
    /\ UNCHANGED conn_frame

TunnelNext ==
    \/ preview_proxy_start
    \/ \E id \in Ids(MaxFewId), h4 \in random_hex(USERNAME_RANDOM_BYTES),
          h12 \in random_hex(PASSWORD_RANDOM_BYTES) :
            preview_proxy_configure(id, h4, h12)
    \/ PROXY_SERVER = 0 /\ start_preview_proxy
    \/ \E u \in UsernamePool, p \in PasswordPool, id \in Ids(MaxFewId) :
            configure_preview_proxy_context(u, p, id)
    \/ \E req \in TunnelRequests : conn_accept(req)
    \/ handle_connect_respond
    \/ ps_handle_connect_dial
    \/ handle_upgrade_forward
    \/ upgrade_on
    \/ upgrade_on_err
    \/ task_connect
    \/ client_close
    \/ upstream_close
    \/ tunnel_end

SpecTunnel == Init /\ [][TunnelNext]_vars

\* ------------------------------------------------------------------------
\* Claims about the CONNECT and upgrade handlers
\* ------------------------------------------------------------------------

Events == {conn.events[i] : i \in DOMAIN conn.events}

\* event a happened, and before every event b
Precedes(a, b) ==
    /\ a \in Events
    /\ \A i, j \in DOMAIN conn.events :
            conn.events[i] = a /\ conn.events[j] = b => i < j

Entries(headers) == {headers[i] : i \in DOMAIN headers}

ValidConnect == conn.req.method = "CONNECT" /\ conn.req.target

\* C12: for an authenticated CONNECT with a valid authority, the upstream is
\* dialed only after the client has been answered 200 with Connection:
\* upgrade and an empty body, and only on the task that holds the upgraded
\* client stream.
C12_ConnectOrdering ==
    (ValidConnect /\ "dial" \in Events)
        => /\ Precedes("response", "dial")
           /\ Precedes("upgraded", "dial")
           /\ conn.resp = Some(ClientResponse(200,
                                << <<CONNECTION, UPGRADE>> >>, "empty"))

\* C13: when the dial of a CONNECT fails, the client has already received
\* the 200, the 502 is written onto the upgraded client stream, the client
\* stream is shut down after it, and no copy is started.
C13_ConnectDialFailure ==
    (ValidConnect /\ ~conn.req.up_ok /\ "dial" \in Events)
        => /\ IsSome(conn.resp)
           /\ Unwrap(conn.resp).status = 200
           /\ Precedes("response", "dial")
           /\ Precedes("dial", "write_502")
           /\ Precedes("write_502", "shutdown_client")
           /\ conn.pc = "done"
           /\ "copy_end" \notin Events

\* C14: in an established tunnel, once either side has closed its stream
\* the copy returns, so the task is not left waiting on the other side; and
\* a tunnel that ended has closed both the client and the upstream stream.
C14_TunnelTermination ==
    /\ (conn.pc = "copy" /\ (conn.client_eof \/ conn.upstream_eof))
            => copy_returns(build, conn)
    /\ "copy_end" \in Events
            => /\ Events \cap {"shutdown_client", "drop_client"} # {}
               /\ Events \cap {"shutdown_upstream", "drop_upstream"} # {}

UpgradeAnswered ==
    /\ conn.req.method # "CONNECT"
    /\ conn.req.upgrade
    /\ conn.req.target
    /\ conn.req.up_ok
    /\ IsSome(conn.resp)

\* C15: when the upstream answers an upgrade request with 101, the client
\* receives a 101 with the upstream's headers and Connection forced to
\* upgrade, and a tunnel task is spawned for the two upgraded streams.
C15_UpgradeSuccess ==
    (UpgradeAnswered /\ conn.req.up_status = 101)
        => /\ Unwrap(conn.resp).status = 101
           /\ Entries(Unwrap(conn.resp).headers)
                = {e \in Entries(conn.req.up_headers) : e[1] # CONNECTION}
                    \cup {<<CONNECTION, UPGRADE>>}
           /\ "spawn" \in Events
           /\ conn.pc \in {"await_upgrade", "copy", "done"}
           /\ conn.pc = "done" => Events \cap {"upgrade_error", "copy_end"} # {}

\* C16: when the upstream answers an upgrade request with a status other
\* than 101, the client receives that response (status, headers, body), no
\* tunnel task is spawned and no upgraded stream is taken.
C16_UpgradeRejection ==
    (UpgradeAnswered /\ conn.req.up_status # 101)
        => /\ Unwrap(conn.resp).status = conn.req.up_status
           /\ Entries(Unwrap(conn.resp).headers) = Entries(conn.req.up_headers)
           /\ Unwrap(conn.resp).body = "upstream"
           /\ "spawn" \notin Events
           /\ "upgraded" \notin Events
           /\ conn.pc = "done"

\* ------------------------------------------------------------------------
\* Targets rewritten and requests forwarded
\* ------------------------------------------------------------------------

\* the hostnames a client may name
HostPool ==
    {<<"l", "o", "c", "a", "l", "h", "o", "s", "t">>,
     <<"L", "o", "c", "a", "l", "H", "o", "s", "t">>,
     <<"1", "2", "7", ".", "0", ".", "0", ".", "1">>,
     <<"1", "2", "7", ".", "0", ".", "0", ".", "2">>,
     <<"0", ".", "0", ".", "0", ".", "0">>,
     <<"[", ":", ":", "1", "]">>,
     <<"a", "p", "p", ".", "l", "o", "c", "a", "l", "h", "o", "s", "t">>,
     <<"1", "2", "7", ".", "e", "x", "a", "m", "p", "l", "e", ".", "c", "o", "m">>,
     <<"e", "x", "a", "m", "p", "l", "e", ".", "c", "o", "m">>}

\* the ports a client may name
PortPool == {0, 80, 443, 7000, 8443, 65535}

RoutePool ==
    {Route(<<"a", "b", "c">>, <<"b", "a", "s", "e">>, <<"c", "m", "u", "x", ".", "a", "p", "p">>),
     Route(<<"a", "b", "c", "1", "2", "3">>, <<"b", "a", "s", "e">>, <<"c", "m", "u", "x", ".", "d", "e", "v">>)}

\* the authority as the client writes it
ClientAuthority(host, port) ==
    IF IsSome(port) THEN host \o <<":">> \o ToDecimal(Unwrap(port)) ELSE host

\* the headers of an authenticated request: the credentials, Host, and the
\* Connection and Upgrade headers that make it an upgrade request, or a
\* Connection: keep-alive with its Keep-Alive header
RequestHeaders(upgrade, host, port) ==
    LET base == << <<PROXY_AUTHORIZATION, <<"B", "a", "s", "i", "c">>>>,
                   <<HOST, ClientAuthority(host, port)>> >>
    IN  IF upgrade
        THEN {base \o << <<CONNECTION, UPGRADE>>, <<UPGRADE, WEBSOCKET>> >>}
        ELSE {base,
              base \o << <<CONNECTION, KEEP_ALIVE>>, <<KEEP_ALIVE, <<"5">>>> >>}

\* a CONNECT names host:port; any other request names a url, with or
\* without a port
ForwardInputs ==
    {ForwardInput("CONNECT", FALSE, "https", h, Some(p), r,
                  << <<PROXY_AUTHORIZATION, <<"B", "a", "s", "i", "c">>>>, <<HOST, ClientAuthority(h, Some(p))>> >>) :
        h \in HostPool, p \in PortPool, r \in {None} \cup {Some(x) : x \in RoutePool}}
    \cup
    UNION {{ForwardInput("GET", u, s, h, p, r, hs) : hs \in RequestHeaders(u, h, p)} :
            u \in BOOLEAN, s \in {"http", "https", "ws", "wss"}, h \in HostPool,
            p \in {None} \cup {Some(x) : x \in PortPool},
            r \in {None} \cup {Some(x) : x \in RoutePool}}

\* a handler rewrites the target of an authenticated request and dials or
\* forwards
forward(input) ==
    /\ build \in {"pp", "ps"}
    /\ fwd.pc = "idle"
    /\ fwd' = IF build = "pp" THEN pp_forward(input) ELSE ps_forward(input)
    /\ UNCHANGED <<build, pp_vars, ps_vars, last, conc_vars, calls, conn, app, INITIAL_LOGGING>>

\* the request has been answered; the next one may come
forward_end ==
    /\ fwd.pc = "done"
    /\ fwd' = NoForward
    /\ UNCHANGED <<build, pp_vars, ps_vars, last, conc_vars, calls, conn, app, INITIAL_LOGGING>>

RewriteNext ==
    \/ \E input \in ForwardInputs : forward(input)
    \/ forward_end

SpecRewrite == Init /\ [][RewriteNext]_vars

\* ------------------------------------------------------------------------
\* Claims about the rewriter and the forwarded request
\* ------------------------------------------------------------------------

HeaderValues(headers, name) ==
    {headers[i][2] : i \in {k \in DOMAIN headers : headers[k][1] = name}}

\* C17: no request sent upstream, on the plain path or on the upgrade path,
\* carries Proxy-Authorization, and its Host header is the authority (host
\* and port) of the rewritten url.
C17_CredentialsStayInProxy ==
    IsSome(fwd.sent)
        => /\ HeaderValues(Unwrap(fwd.sent), PROXY_AUTHORIZATION) = {}
           /\ HeaderValues(Unwrap(fwd.sent), HOST) = {authority(fwd.url)}

\* the loopback classifier as the specification words it: a literal of a
\* fixed set, a name under .localhost, or, brackets stripped, an IPv4
\* address in 127/8 or the IPv6 loopback address; case does not count
SpecLoopback(host) ==
    LET lower == to_lowercase(host)
        bare == trim_matches(lower, {"[", "]"})
    IN  \/ lower \in {<<"l", "o", "c", "a", "l", "h", "o", "s", "t">>,
                     <<"1", "2", "7", ".", "0", ".", "0", ".", "1">>,
                     <<"0", ".", "0", ".", "0", ".", "0">>,
                     <<":", ":", "1">>,
                     <<"[", ":", ":", "1", "]">>,
                     <<":", ":", "f", "f", "f", "f", ":", "1", "2", "7", ".", "0", ".", "0", ".", "1">>,
                     <<"[", ":", ":", "f", "f", "f", "f", ":", "1", "2", "7", ".", "0", ".", "0", ".", "1", "]">>}
        \/ ends_with(lower, <<".", "l", "o", "c", "a", "l", "h", "o", "s", "t">>)
        \/ IsSome(parse_Ipv4Addr(bare)) /\ Unwrap(parse_Ipv4Addr(bare))[1] = 127
        \/ bare \in {<<":", ":", "1">>, <<"0", ":", "0", ":", "0", ":", "0", ":", "0", ":", "0", ":", "0", ":", "1">>}

\* the port a target asks for: its own, or the default of its scheme
RequestedPort(input) ==
    IF IsSome(input.port) THEN Unwrap(input.port)
    ELSE IF input.scheme \in {"https", "wss"} THEN 443 ELSE 80

\* cmux-m-s-p.d
CmuxAuthority(route, p) ==
    <<"c", "m", "u", "x", "-">> \o route.morph_id \o <<"-">> \o route.scope \o <<"-">>
        \o ToDecimal(p) \o <<".">> \o route.domain_suffix

\* C18: a target H:p whose host the specification's classifier takes for
\* loopback, under a route (m, s, d) and any of the four schemes, is
\* rewritten to scheme https and authority cmux-m-s-p.d without a port, and
\* the connect port, where one is computed, is 443.
C18_LoopbackRewrite ==
    (fwd.pc = "done" /\ IsSome(fwd.input.route) /\ IsSome(fwd.input.port)
        /\ SpecLoopback(fwd.input.host))
        => /\ fwd.url.scheme = "https"
           /\ authority(fwd.url)
                = CmuxAuthority(Unwrap(fwd.input.route), Unwrap(fwd.input.port))
           /\ fwd.url.port = None
           /\ IsSome(fwd.connect_port) => Unwrap(fwd.connect_port) = 443

Normalised(scheme) ==
    CASE scheme = "ws" -> "http" [] scheme = "wss" -> "https" [] OTHER -> scheme

\* C19: a target whose host the specification's classifier does not take
\* for loopback keeps its host, its port (a port left out standing for the
\* default port of the scheme) and its scheme, ws counting as http and wss
\* as https, whatever the context.
C19_NonLoopbackPassthrough ==
    (fwd.pc = "done" /\ ~SpecLoopback(fwd.input.host))
        => /\ Normalised(fwd.url.scheme) = Normalised(fwd.input.scheme)
           /\ fwd.url.host = to_lowercase(fwd.input.host)
           /\ (IF IsSome(fwd.url.port) THEN Unwrap(fwd.url.port)
               ELSE default_port(fwd.url.scheme))
                = RequestedPort(fwd.input)

ConnectOf(host, port, route) ==
    /\ fwd.pc = "done"
    /\ fwd.input.method = "CONNECT"
    /\ fwd.input.host = host
    /\ fwd.input.port = Some(port)
    /\ fwd.input.route = route

\* C20: the port a handler connects to is the port of the rewritten url if
\* it has one, else 443 if the url is secure, else 80; a CONNECT is dialed
\* at the rewritten host and that port, so CONNECT 127.0.0.1:7000 under the
\* route (abc, base, cmux.app) dials cmux-abc-base-7000.cmux.app:443 and
\* CONNECT example.com:8443 dials port 8443.
C20_DialAddress ==
    /\ IsSome(fwd.connect_port)
        => Unwrap(fwd.connect_port)
            = (IF IsSome(fwd.url.port) THEN Unwrap(fwd.url.port)
               ELSE IF fwd.url.scheme \in {"https", "wss"} THEN 443 ELSE 80)
    /\ (fwd.pc = "done" /\ fwd.input.method = "CONNECT")
        => fwd.dial = Some(<<fwd.url.host, Unwrap(fwd.connect_port)>>)
    /\ ConnectOf(<<"1", "2", "7", ".", "0", ".", "0", ".", "1">>, 7000, Some(Route(<<"a", "b", "c">>, <<"b", "a", "s", "e">>, <<"c", "m", "u", "x", ".", "a", "p", "p">>)))
        => fwd.dial = Some(<<<<"c", "m", "u", "x", "-", "a", "b", "c", "-", "b", "a", "s", "e", "-", "7", "0", "0", "0", ".", "c", "m", "u", "x", ".", "a", "p", "p">>, 443>>)
    /\ \A r \in {None} \cup {Some(x) : x \in RoutePool} :
        ConnectOf(<<"e", "x", "a", "m", "p", "l", "e", ".", "c", "o", "m">>, 8443, r)
            => IsSome(fwd.dial) /\ Unwrap(fwd.dial)[2] = 8443

\* a CONNECT to 127.0.0.1:7000 under the route (abc, base, cmux.app) has
\* been rewritten and dialed
C20_Witness ==
    /\ ConnectOf(<<"1", "2", "7", ".", "0", ".", "0", ".", "1">>, 7000, Some(Route(<<"a", "b", "c">>, <<"b", "a", "s", "e">>, <<"c", "m", "u", "x", ".", "a", "p", "p">>)))
    /\ IsSome(fwd.dial)

\* ------------------------------------------------------------------------
\* Functions of the handlers, applied to drawn arguments
\* ------------------------------------------------------------------------

app_frame == <<build, pp_vars, ps_vars, last, conc_vars, calls, conn, fwd, INITIAL_LOGGING>>

\* the result has been used; the next application may come
app_end ==
    /\ app.op # "idle"
    /\ app' = IdleApp
    /\ UNCHANGED app_frame

\* str::contains
contains(s, sub) ==
    \E i \in 1..(Len(s) - Len(sub) + 1) : SubSeq(s, i, i + Len(sub) - 1) = sub

\* preview_proxy.rs is_upgrade_request
pp_is_upgrade_request(headers) ==
    LET value == HeaderMap_get(headers, CONNECTION)
    IN  /\ IsSome(value)
        /\ contains(to_lowercase(Unwrap(value)), UPGRADE)
        /\ IsSome(HeaderMap_get(headers, UPGRADE))

\* proxy/handlers.rs is_upgrade_request
ps_is_upgrade_request(headers) ==
    LET value == HeaderMap_get(headers, CONNECTION)
    IN  /\ IsSome(value)
        /\ contains(to_lowercase(Unwrap(value)), UPGRADE)
        /\ IsSome(HeaderMap_get(headers, UPGRADE))

\* handle_request of preview_proxy.rs, the dispatch on an authenticated
\* request
pp_dispatch(method, headers) ==
    IF method = "CONNECT" THEN "connect"
    ELSE IF pp_is_upgrade_request(headers) THEN "upgrade"
    ELSE "http"

\* handle_request of proxy/handlers.rs, the dispatch on an authenticated
\* request
ps_dispatch(method, headers) ==
    IF method = "CONNECT" THEN "connect"
    ELSE IF ps_is_upgrade_request(headers) THEN "upgrade"
    ELSE "http"

\* the Connection values a client may send
ConnectionValues ==
    {<<"u", "p", "g", "r", "a", "d", "e">>, <<"U", "p", "g", "r", "a", "d", "e">>, <<"k", "e", "e", "p", "-", "a", "l", "i", "v", "e">>, <<"k", "e", "e", "p", "-", "a", "l", "i", "v", "e", ",", " ", "U", "p", "g", "r", "a", "d", "e">>, <<"u", "p", "g", "r", "a", "d", "e", "d">>, <<"n", "o", "-", "u", "p", "g", "r", "a", "d", "e", ",", " ", "c", "l", "o", "s", "e">>}

\* the headers of a request to classify: Connection and Upgrade, each there
\* or not
DispatchHeaders ==
    {c \o u : c \in {<<>>} \cup {<< <<CONNECTION, v>> >> : v \in ConnectionValues},
              u \in {<<>>, << <<UPGRADE, WEBSOCKET>> >>}}

dispatch(method, headers) ==
    /\ build \in {"pp", "ps"}
    /\ app.op = "idle"
    /\ app' = App("dispatch", [method |-> method, headers |-> headers],
                  IF build = "pp" THEN pp_dispatch(method, headers)
                  ELSE ps_dispatch(method, headers))
    /\ UNCHANGED app_frame

\* the tokens of a comma-separated header value, blanks trimmed, in lower
\* case
Tokens(value) ==
    LET parts == split(value, ",")
    IN  {to_lowercase(trim_matches(parts[i], {" "})) : i \in DOMAIN parts}

\* C21: an authenticated request takes the CONNECT path iff its method is
\* CONNECT; otherwise the upgrade path iff upgrade is one of the
\* comma-separated tokens of its Connection header, case ignored, and it has
\* an Upgrade header; otherwise the plain path.
C21_RequestClassification ==
    app.op = "dispatch"
        => app.out =
            (IF app.arg.method = "CONNECT" THEN "connect"
             ELSE IF /\ IsSome(HeaderMap_get(app.arg.headers, CONNECTION))
                     /\ UPGRADE \in Tokens(Unwrap(HeaderMap_get(app.arg.headers, CONNECTION)))
                     /\ IsSome(HeaderMap_get(app.arg.headers, UPGRADE))
             THEN "upgrade"
             ELSE "http")

\* ------------------------------------------------------------------------
\* The port scan
\* ------------------------------------------------------------------------

\* how a bind ends: with a listener, or with an io::Error of a kind
BindResults == {"ok", "AddrInUse", "PermissionDenied"}

\* the results of the binds of a scan: those of the first attempts, and
\* the one of every later attempt
BindPlan(first, rest) == [first |-> first, rest |-> rest]

BindResult(plan, i) ==
    IF i < Len(plan.first) THEN plan.first[i + 1] ELSE plan.rest

\* outcome "ok" with the port, "err", or "panic"; tried are the ports
\* computed, in order
Scan(outcome, port, tried) == [outcome |-> outcome, port |-> port, tried |-> tried]

\* for i in 0..range { port = start + i; bind; AddrInUse => continue }
\* The sum is a u16: past 65535 it panics where overflow is checked and
\* wraps where it is not.
RECURSIVE scan_from(_, _, _, _, _, _)
scan_from(start, range, plan, checked, i, tried) ==
    IF i >= range THEN Scan("exhausted", 0, tried)
    ELSE IF start + i > 65535 /\ checked THEN Scan("panic", 0, tried)
    ELSE LET port == (start + i) % 65536
             now == Append(tried, port)
         IN  CASE BindResult(plan, i) = "ok" -> Scan("ok", port, now)
               [] BindResult(plan, i) = "AddrInUse" ->
                    scan_from(start, range, plan, checked, i + 1, now)
               [] OTHER -> Scan("err", 0, now)

\* ProxyServer::bind_port; the message of the last error names
\* start + range - 1
ps_bind_port(start, range, plan, checked) ==
    LET scanned == scan_from(start, range, plan, checked, 0, <<>>)
    IN  IF scanned.outcome # "exhausted" THEN scanned
        ELSE IF checked /\ (start + range > 65535 \/ start + range = 0)
        THEN Scan("panic", 0, scanned.tried)
        ELSE Scan("err", 0, scanned.tried)

\* the loop of ProxyEngine::start
pp_bind_scan(plan, checked) ==
    LET scanned == scan_from(START_PORT, MAX_ATTEMPTS, plan, checked, 0, <<>>)
    IN  IF scanned.outcome # "exhausted" THEN scanned
        ELSE Scan("err", 0, scanned.tried)

\* the first ports a configured scan may start at
StartPorts == {START_PORT, 65534}

BindPlans ==
    {BindPlan(first, rest) :
        first \in UNION {[1..n -> BindResults] : n \in 0..2},
        rest \in BindResults}

\* ProxyServer::start with a ProxyConfig
ps_scan(start, range, plan, checked) ==
    /\ build = "ps"
    /\ app.op = "idle"
    /\ app' = App("scan", [start |-> start, range |-> range, plan |-> plan],
                  ps_bind_port(start, range, plan, checked))
    /\ UNCHANGED app_frame

\* ProxyEngine::start
pp_scan(plan, checked) ==
    /\ build = "pp"
    /\ app.op = "idle"
    /\ app' = App("scan", [start |-> START_PORT, range |-> MAX_ATTEMPTS, plan |-> plan],
                  pp_bind_scan(plan, checked))
    /\ UNCHANGED app_frame

\* the offsets of a scan that name a port: those below range that do not
\* lead past 65535
ScanOffsets(arg) == {i \in 0..(arg.range - 1) : arg.start + i <= 65535}

\* the offsets of a scan whose bind is not refused for an address in use
NotInUse(arg) == {i \in ScanOffsets(arg) : BindResult(arg.plan, i) # "AddrInUse"}

\* C22: the scan returns the lowest port of [start, start + range) whose
\* bind does not fail with address-in-use; it passes a port only on that
\* error, fails at once on another, fails when every port of the range is
\* in use, and computes no port outside the range or above 65535.
C22_PortScan ==
    app.op = "scan"
        => /\ app.out.outcome \in {"ok", "err"}
           /\ \A k \in DOMAIN app.out.tried :
                app.out.tried[k] = app.arg.start + (k - 1)
                /\ (k - 1) \in ScanOffsets(app.arg)
           /\ IF NotInUse(app.arg) = {}
              THEN app.out.outcome = "err"
              ELSE LET i == CHOOSE x \in NotInUse(app.arg) :
                                \A y \in NotInUse(app.arg) : x <= y
                   IN  /\ Len(app.out.tried) = i + 1
                       /\ IF BindResult(app.arg.plan, i) = "ok"
                          THEN app.out.outcome = "ok"
                               /\ app.out.port = app.arg.start + i
                          ELSE app.out.outcome = "err"

\* ------------------------------------------------------------------------
\* Hop-by-hop headers
\* ------------------------------------------------------------------------

\* cmux-proxy strip_hop_by_hop_headers: the Connection value is read once
\* the hop-by-hop names, connection among them, are removed
cp_strip_hop_by_hop_headers(h) ==
    LET stripped == remove_each(h, HOP_HEADERS)
        conn_val == HeaderMap_get(stripped, CONNECTION)
        tokens == IF IsSome(conn_val)
                  THEN LET parts == split(Unwrap(conn_val), ",")
                       IN  {to_lowercase(trim_matches(parts[i], {" "})) :
                                i \in DOMAIN parts} \ {<<>>}
                  ELSE {}
    IN  remove_each(stripped, tokens)

\* proxy/handlers.rs handle_http: the response of the upstream goes back
\* with the headers it has
ps_response_headers(headers) == headers

\* the header maps of a plain request or response
StripHeaders ==
    {c \o k \o u \o x \o a :
        c \in {<<>>, << <<CONNECTION, KEEP_ALIVE>> >>,
               << <<CONNECTION, <<"x", "-", "c", "u", "s", "t", "o", "m", ",", " ", "K", "e", "e", "p", "-", "A", "l", "i", "v", "e">>>> >>},
        k \in {<<>>, << <<KEEP_ALIVE, <<"5">>>> >>},
        u \in {<<>>, << <<UPGRADE, WEBSOCKET>> >>},
        x \in {<<>>, << <<<<"x", "-", "c", "u", "s", "t", "o", "m">>, <<"1">>>> >>},
        a \in {<<>>, << <<<<"t", "e">>, <<"t", "r", "a", "i", "l", "e", "r", "s">>>>, <<<<"a", "c", "c", "e", "p", "t">>, <<"*", "/", "*">>>> >>}}

\* the headers of a plain request or response pass the proxy, once and, as
\* if they passed a second proxy, twice
strip(headers) ==
    /\ app.op = "idle"
    /\ app' = App("strip", headers,
                  CASE build = "pp" ->
                        [once |-> strip_hop_by_hop_headers(headers),
                         twice |-> strip_hop_by_hop_headers(
                                        strip_hop_by_hop_headers(headers))]
                    [] build = "cp" ->
                        [once |-> cp_strip_hop_by_hop_headers(headers),
                         twice |-> cp_strip_hop_by_hop_headers(
                                        cp_strip_hop_by_hop_headers(headers))]
                    [] OTHER ->
                        [once |-> ps_response_headers(headers),
                         twice |-> ps_response_headers(ps_response_headers(headers))])
    /\ UNCHANGED app_frame

Names(headers) == {headers[i][1] : i \in DOMAIN headers}

\* the nine hop-by-hop names of the specification
HopByHop ==
    {<<"c", "o", "n", "n", "e", "c", "t", "i", "o", "n">>,
     <<"k", "e", "e", "p", "-", "a", "l", "i", "v", "e">>,
     <<"p", "r", "o", "x", "y", "-", "a", "u", "t", "h", "e", "n", "t", "i", "c", "a", "t", "e">>,
     <<"p", "r", "o", "x", "y", "-", "a", "u", "t", "h", "o", "r", "i", "z", "a", "t", "i", "o", "n">>,
     <<"t", "e">>,
     <<"t", "r", "a", "i", "l", "e", "r", "s">>,
     <<"t", "r", "a", "n", "s", "f", "e", "r", "-", "e", "n", "c", "o", "d", "i", "n", "g">>,
     <<"u", "p", "g", "r", "a", "d", "e">>,
     <<"p", "r", "o", "x", "y", "-", "c", "o", "n", "n", "e", "c", "t", "i", "o", "n">>}

\* C27: the headers that have passed the proxy on the plain path hold none
\* of the nine hop-by-hop names and none of the names listed as tokens in
\* the Connection value they came with.
C27_HopByHopStripped ==
    app.op = "strip"
        => Names(app.out.once)
            \cap (HopByHop
                  \cup UNION {Tokens(v) : v \in HeaderValues(app.arg, CONNECTION)})
            = {}

\* C28: strip_hop_by_hop_headers applied twice gives the header map it
\* gives applied once.
C28_StripIdempotent ==
    (app.op = "strip" /\ build \in {"pp", "cp"})
        => app.out.twice = app.out.once

\* a header map with hop-by-hop headers and a name listed in Connection has
\* been stripped, and something was taken out
C28_Witness ==
    /\ app.op = "strip"
    /\ build \in {"pp", "cp"}
    /\ \E v \in HeaderValues(app.arg, CONNECTION) : <<"x", "-", "c", "u", "s", "t", "o", "m">> \in Tokens(v)
    /\ KEEP_ALIVE \in Names(app.arg)
    /\ Len(app.out.once) < Len(app.arg)
    /\ app.out.once # <<>>

\* ------------------------------------------------------------------------
\* The loopback classifier
\* ------------------------------------------------------------------------

\* the hostnames to classify
ClassifiedHosts ==
    HostPool \cup {<<"0", ":", "0", ":", "0", ":", "0", ":", "0", ":", "0", ":", "0", ":", "1">>, <<":", ":", "f", "f", "f", "f", ":", "1", "2", "7", ".", "0", ".", "0", ".", "1">>, <<"[", ":", ":", "f", "f", "f", "f", ":", "1", "2", "7", ".", "0", ".", "0", ".", "1", "]">>, <<":", ":", "1">>, <<"[", "1", "2", "7", ".", "0", ".", "0", ".", "1", "]">>, <<"1", "2", "8", ".", "0", ".", "0", ".", "1">>, <<"n", "o", "t", "l", "o", "c", "a", "l", "h", "o", "s", "t">>}

is_loopback(host) ==
    /\ build \in {"pp", "ps"}
    /\ app.op = "idle"
    /\ app' = App("is_loopback", host,
                  IF build = "pp" THEN pp_is_loopback_hostname(host)
                  ELSE ps_is_loopback_hostname(host))
    /\ UNCHANGED app_frame

\* C30: is_loopback_hostname answers true exactly for the hostnames the
\* classifier of the specification takes for loopback.
C30_LoopbackClassification ==
    app.op = "is_loopback" => (app.out <=> SpecLoopback(app.arg))

\* ------------------------------------------------------------------------
\* Route derivation
\* ------------------------------------------------------------------------

\* proxy/types.rs CMUX_DOMAINS, in order
CMUX_DOMAINS ==
    <<<<"c", "m", "u", "x", ".", "a", "p", "p">>, <<"c", "m", "u", "x", ".", "s", "h">>, <<"c", "m", "u", "x", ".", "d", "e", "v">>, <<"c", "m", "u", "x", ".", "l", "o", "c", "a", "l">>, <<"c", "m", "u", "x", ".", "l", "o", "c", "a", "l", "h", "o", "s", "t">>, <<"a", "u", "t", "o", "b", "u", "i", "l", "d", ".", "a", "p", "p">>>>

\* str::find of a pattern: the offset of its first occurrence, as an Option
find(s, pat) ==
    LET at == {i \in 0..(Len(s) - Len(pat)) : SubSeq(s, i + 1, i + Len(pat)) = pat}
    IN  IF at = {} THEN None
        ELSE Some(CHOOSE i \in at : \A j \in at : i <= j)

\* Vec::join with a separator
RECURSIVE join(_, _)
join(parts, sep) ==
    IF parts = <<>> THEN <<>>
    ELSE IF Len(parts) = 1 THEN parts[1]
    ELSE parts[1] \o sep \o join(Tail(parts), sep)

\* Iterator::filter(|s| !s.is_empty())
RECURSIVE filter_non_empty(_)
filter_non_empty(parts) ==
    IF parts = <<>> THEN <<>>
    ELSE IF Head(parts) = <<>> THEN filter_non_empty(Tail(parts))
    ELSE <<Head(parts)>> \o filter_non_empty(Tail(parts))

\* a url as text: scheme://host[:port]/
UrlText(scheme, host, port) == [scheme |-> scheme, host |-> host, port |-> port]

\* pattern 1 of derive_route: port-{port}-morphvm-{morphId}.http.cloud.morph.so
morph_pattern(hostname) ==
    IF /\ starts_with(hostname, <<"p", "o", "r", "t", "-">>)
       /\ ends_with(SubSeq(hostname, 6, Len(hostname)), <<".", "h", "t", "t", "p", ".", "c", "l", "o", "u", "d", ".", "m", "o", "r", "p", "h", ".", "s", "o">>)
    THEN LET morph_match == SubSeq(hostname, 6, Len(hostname) - 20)
             morph_idx == find(morph_match, <<"-", "m", "o", "r", "p", "h", "v", "m", "-">>)
         IN  IF IsSome(morph_idx)
                /\ SubSeq(morph_match, Unwrap(morph_idx) + 10, Len(morph_match)) # <<>>
             THEN Some(Route(SubSeq(morph_match, Unwrap(morph_idx) + 10, Len(morph_match)),
                             <<"b", "a", "s", "e">>, <<"c", "m", "u", "x", ".", "a", "p", "p">>))
             ELSE None
    ELSE None

\* the body of the loop of pattern 2 for one domain: the route, or None
\* where the loop continues
cmux_pattern(hostname, domain) ==
    LET suffix == <<".">> \o domain
        subdomain == SubSeq(hostname, 1, Len(hostname) - Len(suffix))
        segments == filter_non_empty(split(SubSeq(subdomain, 6, Len(subdomain)), "-"))
        morph_id == join(SubSeq(segments, 1, Len(segments) - 2), <<"-">>)
    IN  IF /\ ends_with(hostname, suffix)
           /\ starts_with(subdomain, <<"c", "m", "u", "x", "-">>)
           /\ Len(segments) >= 3
           /\ \A i \in DOMAIN segments[Len(segments)] : IsDigit(segments[Len(segments)][i])
           /\ morph_id # <<>>
        THEN Some(Route(morph_id, segments[Len(segments) - 1], domain))
        ELSE None

\* a derive_route that takes the first segment for the morph id and the
\* rest before the port for the scope
derive_route_first_segment(url_str) ==
    LET hostname == Url_parse(url_str.scheme, url_str.host, url_str.port).host
        matching == {k \in DOMAIN CMUX_DOMAINS :
                        IsSome(cmux_pattern(hostname, CMUX_DOMAINS[k]))}
    IN  IF matching = {} THEN None
        ELSE LET domain == CMUX_DOMAINS[CHOOSE k \in matching : \A j \in matching : k <= j]
                 subdomain == SubSeq(hostname, 1, Len(hostname) - Len(domain) - 1)
                 segments == filter_non_empty(split(SubSeq(subdomain, 6, Len(subdomain)), "-"))
             IN  Some(Route(segments[1],
                            join(SubSeq(segments, 2, Len(segments) - 1), <<"-">>),
                            domain))

\* Url::parse(..).is_err() of an http or https url: the host is empty or
\* holds a character a host may not hold
Url_parse_fails(url_str) ==
    url_str.host = <<>> \/ \E i \in DOMAIN url_str.host : url_str.host[i] = " "

\* proxy/rewrite.rs derive_route
derive_route(url_str) ==
    IF Url_parse_fails(url_str) THEN None ELSE
    LET hostname == to_lowercase(Url_parse(url_str.scheme, url_str.host, url_str.port).host)
        matching == {k \in DOMAIN CMUX_DOMAINS :
                        IsSome(cmux_pattern(hostname, CMUX_DOMAINS[k]))}
    IN  IF IsSome(morph_pattern(hostname)) THEN morph_pattern(hostname)
        ELSE IF matching = {} THEN None
        ELSE cmux_pattern(hostname,
                          CMUX_DOMAINS[CHOOSE k \in matching : \A j \in matching : k <= j])

\* the morph ids and scopes of the routes to encode
MorphIds == {<<"a">>, <<"m", "y", "-", "i", "d">>, <<"a", "-", "-", "b">>, <<"A", "b">>}

Scopes == {<<"b", "a", "s", "e">>, <<"m", "y", "-", "s", "c", "o", "p", "e">>, <<"7">>}

EncodedPorts == {0, 8080, 65535}

\* derive_route applied to the url of the host build_cmux_host gives
derive_route_of_host(route, port) ==
    /\ build = "ps"
    /\ app.op = "idle"
    /\ app' = App("derive_route", [route |-> route, port |-> port],
                  derive_route(UrlText("https", build_cmux_host(route, port), None)))
    /\ UNCHANGED app_frame

\* text whose segments between dashes are not empty
Segmented(s) == \A i \in DOMAIN split(s, "-") : split(s, "-")[i] # <<>>

\* C29 as stated: for every route (m, s, d) with m and s non-empty and d a
\* recognised suffix, and every port, derive_route of
\* https://cmux-{m}-{s}-{p}.{d} is (m, s, d).
C29_RoundTripAsStated ==
    app.op = "derive_route" => app.out = Some(app.arg.route)

\* C29: for every route (m, s, d) with m and s non-empty and in lower
\* case, s without a dash, m without an empty segment between dashes, and
\* d a recognised suffix, and every port, derive_route of
\* https://cmux-{m}-{s}-{p}.{d} is (m, s, d).
C29_RoundTrip ==
    (/\ app.op = "derive_route"
     /\ to_lowercase(app.arg.route.morph_id) = app.arg.route.morph_id
     /\ to_lowercase(app.arg.route.scope) = app.arg.route.scope
     /\ Segmented(app.arg.route.morph_id)
     /\ "-" \notin {app.arg.route.scope[i] : i \in DOMAIN app.arg.route.scope})
        => app.out = Some(app.arg.route)

\* a route whose morph id has a dash came back from the host of port 65535
C29_Witness ==
    /\ app.op = "derive_route"
    /\ app.arg.route.morph_id = <<"m", "y", "-", "i", "d">>
    /\ app.arg.route.scope = <<"b", "a", "s", "e">>
    /\ app.arg.port = 65535
    /\ app.out = Some(app.arg.route)

\* ------------------------------------------------------------------------
\* Registration with what the caller passes: the route or the initial url,
\* and, in lib.rs, the credentials
\* ------------------------------------------------------------------------

\* the routes PreviewProxyConfigureOptions may carry
OptionalRoutes == {None, Some(Route(<<"a">>, <<"b", "a", "s", "e">>, <<"c", "m", "u", "x", ".", "s", "h">>))}

\* the initial urls of a ProxyContextConfig
InitialUrls ==
    {UrlText("https", <<"e", "x", "a", "m", "p", "l", "e", ".", "c", "o", "m">>, None),
     UrlText("http", <<"c", "m", "u", "x", "-", "a", "-", "b", "a", "s", "e", "-", "8", "0", "8", "0", ".", "c", "m", "u", "x", ".", "s", "h">>, None)}

\* the credentials of a ProxyContextConfig
ConfigUsernames == {<<"a">>, <<>>}

ConfigPasswords == {<<"p">>, <<>>}

\* preview_proxy_configure with the route of its options
preview_proxy_configure_opts(id, hex4, hex12, route) ==
    /\ build = "pp"
    /\ LET e == ensure_engine
           ctx == ProxyContext_new(id, hex4, hex12)
           before == Snapshot(pp_port, HeldPorts(engines), engine_shared)
       IN  /\ PREVIEW_PROXY' = e.cell
           /\ engines' = e.engines
           /\ app' = App("configure", route, IF e.ok THEN route ELSE None)
           /\ IF e.ok /\ id # 0
              THEN /\ engine_shared' =
                        register_context(release_by_web_contents(e.shared, id), ctx)
                   /\ last' = Last("configure", id, TRUE,
                                   Some([username |-> ctx.username,
                                         password |-> ctx.password]),
                                   pp_context_of(e.shared, id),
                                   e.engines[e.engine].port, NoReq, NoResp, before)
              ELSE /\ engine_shared' = e.shared
                   /\ last' = Last("configure", id, FALSE, None,
                                   pp_context_of(e.shared, id), 0,
                                   NoReq, NoResp, before)
    /\ UNCHANGED <<build, calls, conn, fwd, INITIAL_LOGGING, conc_vars, ps_vars>>

\* configure_preview_proxy_context with the whole ProxyContextConfig
configure_preview_proxy_context_config(username, password, initial_url, web_contents_id) ==
    /\ build = "ps"
    /\ LET context == [username |-> username, password |-> password,
                       web_contents_id |-> web_contents_id]
           before == Snapshot(ps_port, HeldPorts(servers), server_state)
       IN  IF PROXY_SERVER # 0
           THEN /\ app' = App("configure", initial_url, derive_route(initial_url))
                /\ server_state' = add_context(server_state, context)
                /\ last' = Last("configure", web_contents_id, TRUE,
                                Some([username |-> username, password |-> password]),
                                get_context_by_web_contents_id(server_state,
                                                               web_contents_id),
                                0, NoReq, NoResp, before)
           ELSE /\ app' = App("configure", initial_url, None)
                /\ server_state' = server_state
                /\ last' = Last("configure", web_contents_id, FALSE, None, None, 0,
                                NoReq, NoResp, before)
    /\ UNCHANGED <<build, calls, conn, fwd, INITIAL_LOGGING, conc_vars, pp_vars, PROXY_SERVER, servers>>

\* the headers of the clients: a pair, a pair without its username, a pair
\* without its password
ConfigHeaders ==
    LET c == ProxyContext_new(1, [i \in 1..(2 * USERNAME_RANDOM_BYTES) |-> "0"],
                                 [i \in 1..(2 * PASSWORD_RANDOM_BYTES) |-> "0"])
    IN  {BasicHeader(u, pw) :
            u \in ConfigUsernames \cup {c.username},
            pw \in ConfigPasswords \cup {c.password}}

RegisterNext ==
    \/ preview_proxy_start
    \/ \E id \in IdsAndZero(MaxFewId), h4 \in random_hex(USERNAME_RANDOM_BYTES),
          h12 \in random_hex(PASSWORD_RANDOM_BYTES), route \in OptionalRoutes :
            preview_proxy_configure_opts(id, h4, h12, route)
    \/ \E id \in Ids(MaxFewId) : preview_proxy_release(id)
    \/ start_preview_proxy
    \/ stop_preview_proxy
    \/ \E u \in ConfigUsernames, pw \in ConfigPasswords, url \in InitialUrls,
          id \in Ids(MaxFewId) :
            configure_preview_proxy_context_config(u, pw, url, id)
    \/ \E id \in Ids(MaxFewId) : release_preview_proxy_context(id)
    \/ \E header \in ConfigHeaders :
        \E rest \in RequestRest : pp_request(header, rest)
    \/ \E header \in ConfigHeaders :
        \E rest \in RequestRest : ps_request(header, rest)

SpecRegister == Init /\ [][RegisterNext]_vars

\* the registry of the running build
Registry == IF build = "pp" THEN engine_shared ELSE server_state

\* the last operation registered with nothing to derive a route from
Unroutable ==
    /\ last.op = "configure"
    /\ app.op = "configure"
    /\ IF build = "pp" THEN app.arg = None ELSE derive_route(app.arg) = None

\* C23: a registration whose initial url gives no route returns no
\* credentials and leaves both indices of the registry as they were.
C23_UnroutableRefused ==
    Unroutable
        => /\ ~last.ok
           /\ last.ret = None
           /\ Registry = last.before.registry

\* C24: a registration made before any start succeeds and stores its
\* context, whose credentials then authenticate.
C24_RegistrationBeforeStart ==
    (/\ last.op = "configure"
     /\ app.op = "configure"
     /\ ~Unroutable
     /\ last.id # 0
     /\ last.before.ports = {}
     /\ last.before.port = 0
     /\ (build = "ps" => Len(servers) = 0))
        => /\ last.ok
           /\ IsSome(last.ret)
           /\ IsSome(Authenticates(Unwrap(last.ret).username, Unwrap(last.ret).password))

\* C25: a request whose Basic credential has an empty username or an empty
\* password is answered with 407, whatever is registered.
C25_EmptyCredentialsRejected ==
    (/\ last.op = "request"
     /\ IsSome(PresentedPair(last.req.header))
     /\ \/ Unwrap(PresentedPair(last.req.header))[1] = <<>>
        \/ Unwrap(PresentedPair(last.req.header))[2] = <<>>)
        => (last.resp.status = 407 /\ last.resp.upstream = "none")

\* the usernames of a registry
Usernames(registry) ==
    IF build = "pp"
    THEN {c.username : c \in MapValues(registry.contexts_by_username)}
    ELSE {c.username : c \in MapValues(registry.contexts_by_username)
                                \cup MapValues(registry.contexts_by_web_contents_id)}

\* C26: the username a registration is given was not in use by a
\* registration before it.
C26_UsernameUnique ==
    (last.op = "configure" /\ app.op = "configure" /\ last.ok)
        => Unwrap(last.ret).username \notin Usernames(last.before.registry)

\* ------------------------------------------------------------------------
\* Route derivation over the hostnames of initial urls
\* ------------------------------------------------------------------------

\* the hostnames of the initial urls to derive a route from
DerivedHosts ==
    {<<"c", "m", "u", "x", "-", "a", "-", "b", "a", "s", "e", "-", "8", "0", "8", "0", ".", "c", "m", "u", "x", ".", "s", "h">>, <<"c", "m", "u", "x", "-", "a", "-", "b", "a", "s", "e", "-", "6", "5", "5", "3", "5", ".", "c", "m", "u", "x", ".", "a", "p", "p">>,
     <<"c", "m", "u", "x", "-", "a", "-", "b", "a", "s", "e", "-", "9", "9", "9", "9", "9", ".", "c", "m", "u", "x", ".", "s", "h">>, <<"c", "m", "u", "x", "-", "a", "-", "b", "a", "s", "e", "-", "0", "8", "0", ".", "c", "m", "u", "x", ".", "l", "o", "c", "a", "l">>,
     <<"c", "m", "u", "x", "-", "a", "-", "b", "a", "s", "e", ".", "c", "m", "u", "x", ".", "s", "h">>, <<"c", "m", "u", "x", "-", "a", "-", "b", "a", "s", "e", "-", "x", ".", "c", "m", "u", "x", ".", "s", "h">>, <<"c", "m", "u", "x", "-", "7", ".", "c", "m", "u", "x", ".", "s", "h">>,
     <<"c", "m", "u", "x", "-", "-", "a", "-", "-", "b", "a", "s", "e", "-", "8", "0", ".", "c", "m", "u", "x", ".", "d", "e", "v">>, <<"c", "m", "u", "x", "-", "m", "y", "-", "i", "d", "-", "b", "a", "s", "e", "-", "8", "0", ".", "a", "u", "t", "o", "b", "u", "i", "l", "d", ".", "a", "p", "p">>,
     <<"C", "M", "U", "X", "-", "A", "-", "B", "a", "s", "e", "-", "8", "0", ".", "C", "M", "U", "X", ".", "S", "H">>, <<"c", "m", "u", "x", "-", "a", "-", "b", "a", "s", "e", "-", "8", "0", ".", "e", "x", "a", "m", "p", "l", "e", ".", "c", "o", "m">>,
     <<"x", "c", "m", "u", "x", "-", "a", "-", "b", "a", "s", "e", "-", "8", "0", ".", "c", "m", "u", "x", ".", "s", "h">>, <<"e", "x", "a", "m", "p", "l", "e", ".", "c", "o", "m">>, <<"c", "m", "u", "x", ".", "s", "h">>,
     <<"p", "o", "r", "t", "-", "8", "0", "8", "0", "-", "m", "o", "r", "p", "h", "v", "m", "-", "t", "e", "s", "t", "1", "2", "3", ".", "h", "t", "t", "p", ".", "c", "l", "o", "u", "d", ".", "m", "o", "r", "p", "h", ".", "s", "o">>,
     <<"p", "o", "r", "t", "-", "a", "b", "c", "-", "m", "o", "r", "p", "h", "v", "m", "-", "x", ".", "h", "t", "t", "p", ".", "c", "l", "o", "u", "d", ".", "m", "o", "r", "p", "h", ".", "s", "o">>,
     <<"p", "o", "r", "t", "-", "-", "m", "o", "r", "p", "h", "v", "m", "-", "x", ".", "h", "t", "t", "p", ".", "c", "l", "o", "u", "d", ".", "m", "o", "r", "p", "h", ".", "s", "o">>,
     <<"p", "o", "r", "t", "-", "8", "0", "-", "m", "o", "r", "p", "h", "v", "m", "-", ".", "h", "t", "t", "p", ".", "c", "l", "o", "u", "d", ".", "m", "o", "r", "p", "h", ".", "s", "o">>,
     <<"p", "o", "r", "t", "-", "8", "0", "-", "m", "o", "r", "p", "h", "v", "m", "-", "x", ".", "c", "l", "o", "u", "d", ".", "m", "o", "r", "p", "h", ".", "s", "o">>,
     <<"a", " ", "b">>, <<>>}

\* derive_route applied to an initial url
derive_route_of_url(url_str) ==
    /\ build = "ps"
    /\ app.op = "idle"
    /\ app' = App("derive", url_str, derive_route(url_str))
    /\ UNCHANGED app_frame

\* text that parses as a 16-bit unsigned integer
IsU16(s) == IsSome(parse_decimal(s)) /\ Unwrap(parse_decimal(s)) <= 65535

\* the route of the morph pattern port-<digits>-morphvm-<id>.http.cloud.morph.so
MorphRoute(hostname) ==
    LET tail == <<".", "h", "t", "t", "p", ".", "c", "l", "o", "u", "d", ".", "m", "o", "r", "p", "h", ".", "s", "o">>
        head == SubSeq(hostname, 1, Len(hostname) - Len(tail))
        at == find(head, <<"-", "m", "o", "r", "p", "h", "v", "m", "-">>)
    IN  IF /\ ends_with(hostname, tail)
           /\ starts_with(head, <<"p", "o", "r", "t", "-">>)
           /\ IsSome(at)
           /\ Unwrap(at) >= 5
           /\ IsSome(parse_decimal(SubSeq(head, 6, Unwrap(at))))
           /\ Unwrap(at) + 9 < Len(head)
        THEN Some(Route(SubSeq(head, Unwrap(at) + 10, Len(head)), <<"b", "a", "s", "e">>, <<"c", "m", "u", "x", ".", "a", "p", "p">>))
        ELSE None

\* the routes of the cmux pattern: for a suffix of the list the hostname
\* ends with, the label before it beginning with cmux-
CmuxRoutes(hostname) ==
    UNION {LET suffix == <<".">> \o CMUX_DOMAINS[k]
               label == SubSeq(hostname, 1, Len(hostname) - Len(suffix))
               seg == filter_non_empty(split(SubSeq(label, 6, Len(label)), "-"))
           IN  IF /\ ends_with(hostname, suffix)
                  /\ starts_with(label, <<"c", "m", "u", "x", "-">>)
                  /\ Len(seg) >= 3
                  /\ IsU16(seg[Len(seg)])
               THEN {Route(join(SubSeq(seg, 1, Len(seg) - 2), <<"-">>),
                           seg[Len(seg) - 1], CMUX_DOMAINS[k])}
               ELSE {} : k \in DOMAIN CMUX_DOMAINS}

\* C31: derive_route gives the route of the morph pattern for a hostname of
\* that pattern; for a hostname of the cmux pattern it gives a route only
\* when the label has three segments or more and the last is a 16-bit
\* unsigned integer, with the scope the segment before it and the morph id
\* the others joined by '-'; for every other url, those that do not parse
\* included, it gives no route.
C31_RouteAcceptance ==
    app.op = "derive"
        => LET hostname == to_lowercase(app.arg.host)
           IN  IF Url_parse_fails(app.arg) THEN app.out = None
               ELSE IF IsSome(MorphRoute(hostname)) THEN app.out = MorphRoute(hostname)
               ELSE IF app.out = None THEN CmuxRoutes(hostname) = {}
               ELSE Unwrap(app.out) \in CmuxRoutes(hostname)

\* ------------------------------------------------------------------------
\* The logging switch
\* ------------------------------------------------------------------------

\* a setter that switches the flag on and never off
ProxyState_set_logging_enabled_once(state, enabled) ==
    [state EXCEPT !.logging_enabled = state.logging_enabled \/ enabled]

\* ProxyState::set_logging_enabled
ProxyState_set_logging_enabled(state, enabled) ==
    [state EXCEPT !.logging_enabled = enabled]

\* ProxyState::is_logging_enabled
is_logging_enabled(state) == state.logging_enabled

\* SharedState::set_logging_enabled
SharedState_set_logging_enabled(shared, enabled) ==
    [shared EXCEPT !.logging_enabled = enabled]

\* SharedState::logging_enabled
logging_enabled(shared) == shared.logging_enabled

\* preview_proxy_set_logging_enabled: the store to INITIAL_LOGGING and the
\* store to the engine of the cell, taken as one step
preview_proxy_set_logging_enabled(enabled) ==
    /\ build = "pp"
    /\ INITIAL_LOGGING' = enabled
    /\ engine_shared' = IF PREVIEW_PROXY # 0
                        THEN SharedState_set_logging_enabled(engine_shared, enabled)
                        ELSE engine_shared
    /\ last' = Last("set_logging", 0, TRUE, Some(enabled), None, 0, NoReq, NoResp,
                    Snapshot(pp_port, HeldPorts(engines), engine_shared))
    /\ UNCHANGED <<build, calls, conn, fwd, app, conc_vars, PREVIEW_PROXY, engines, ps_vars>>

\* set_preview_proxy_logging_enabled
set_preview_proxy_logging_enabled(enabled) ==
    /\ build = "ps"
    /\ IF PROXY_SERVER # 0
       THEN /\ server_state' = ProxyState_set_logging_enabled(server_state, enabled)
            /\ last' = Last("set_logging", 0, TRUE, Some(enabled), None, 0,
                            NoReq, NoResp,
                            Snapshot(ps_port, HeldPorts(servers), server_state))
       ELSE /\ server_state' = server_state
            /\ last' = Last("set_logging", 0, FALSE, None, None, 0, NoReq, NoResp,
                            Snapshot(ps_port, HeldPorts(servers), server_state))
    /\ UNCHANGED <<build, more_vars, conc_vars, pp_vars, PROXY_SERVER, servers>>

LoggingNext ==
    \/ Control(MaxFewId)
    \/ \E enabled \in BOOLEAN : preview_proxy_set_logging_enabled(enabled)
    \/ \E enabled \in BOOLEAN : set_preview_proxy_logging_enabled(enabled)

SpecLogging == Init /\ [][LoggingNext]_vars

\* the logging flag of the registry of the running build
Flag ==
    IF build = "pp" THEN logging_enabled(engine_shared)
    ELSE is_logging_enabled(server_state)

\* the two context indices of the registry of the running build
Indices ==
    IF build = "pp"
    THEN <<engine_shared.contexts_by_username, engine_shared.contexts_by_web_contents>>
    ELSE <<server_state.contexts_by_username, server_state.contexts_by_web_contents_id>>

\* the process holds a registry: an engine is in the cell, a server in the
\* global
HasRegistry == IF build = "pp" THEN PREVIEW_PROXY # 0 ELSE PROXY_SERVER # 0

\* C33: the flag of a new registry is false (for the engine: the value
\* last set before it was made); a set_logging_enabled leaves the flag at
\* its argument and both indices as they were; no other operation on the
\* registry changes the flag.
C33_LoggingSwitch ==
    [][IF last'.op = "set_logging"
       THEN /\ (last'.ok /\ HasRegistry) => Flag' = Unwrap(last'.ret)
            /\ Indices' = Indices
       ELSE IF ~HasRegistry' THEN TRUE
       ELSE IF ~HasRegistry \/ PROXY_SERVER' # PROXY_SERVER
       THEN Flag' = (IF build = "pp" THEN INITIAL_LOGGING ELSE FALSE)
       ELSE Flag' = Flag]_vars

\* logging was on, the registry holds a context, and the flag has been set
\* to off
C33_Witness ==
    /\ last.op = "set_logging"
    /\ last.ok
    /\ HasRegistry
    /\ last.ret = Some(FALSE)
    /\ last.before.registry.logging_enabled
    /\ Indices[1] # EmptyMap
    /\ ~Flag

\* ------------------------------------------------------------------------
\* The logging switch beside the first start
\* ------------------------------------------------------------------------

LogStartNext ==
    \/ \E c \in Callers : start_call(c)
    \/ \E c \in Callers : ensure_engine_get(c)
    \/ \E c \in Callers : ensure_engine_start(c)
    \/ \E c \in Callers : ensure_engine_set(c)
    \/ \E c \in Callers : start_return(c)
    \/ \E i \in 1..Len(engines) : engine_task_exit(i)
    \/ \E enabled \in BOOLEAN : preview_proxy_set_logging_enabled(enabled)

SpecLogStart == Init /\ [][LogStartNext]_vars

\* C38: once preview_proxy_set_logging_enabled(b) and the first start have
\* both returned, the flag of the engine that runs is b.
C38_LoggingSurvivesStart ==
    (/\ build = "pp"
     /\ last.op = "set_logging"
     /\ PREVIEW_PROXY # 0
     /\ \A c \in Callers : calls[c].pc \in {"idle", "done"})
        => logging_enabled(engine_shared) = Unwrap(last.ret)

\* ------------------------------------------------------------------------
\* Contexts without a route, and the Host header sent upstream
\* ------------------------------------------------------------------------

\* the url the handler parsed the target of the request to
ParsedTarget ==
    IF fwd.input.method = "CONNECT"
    THEN Url_parse("https", fwd.input.host, fwd.input.port)
    ELSE IF build = "pp"
    THEN Url_parse(fwd.input.scheme, fwd.input.host, fwd.input.port)
    ELSE parse_request_url(fwd.input.scheme, fwd.input.host, fwd.input.port)

\* C37: for a context whose route is none the rewritten url is the url of
\* the target, loopback hosts included, and what the handler dials is the
\* host and the port of the target.
C37_NoRouteNoRewrite ==
    (fwd.pc = "done" /\ fwd.input.route = None)
        => /\ fwd.url = ParsedTarget
           /\ fwd.url.host = to_lowercase(fwd.input.host)
           /\ IsSome(fwd.dial)
                => Unwrap(fwd.dial) = <<to_lowercase(fwd.input.host),
                                        Unwrap(fwd.input.port)>>

\* a request to localhost:7000 of a context without a route went to
\* localhost:7000
C37_Witness ==
    /\ fwd.pc = "done"
    /\ fwd.input.route = None
    /\ fwd.input.method = "GET"
    /\ fwd.input.host = <<"l", "o", "c", "a", "l", "h", "o", "s", "t">>
    /\ fwd.input.port = Some(7000)
    /\ authority(fwd.url) = <<"l", "o", "c", "a", "l", "h", "o", "s", "t", ":", "7", "0", "0", "0">>

\* C39: the Host header sent upstream is the authority of the rewritten
\* url: its host, followed by :port exactly when the url carries a port.
C39_UpstreamHost ==
    (fwd.pc = "done" /\ IsSome(fwd.sent))
        => LET sent == Unwrap(fwd.sent)
           IN  {sent[i][2] : i \in {k \in DOMAIN sent : sent[k][1] = HOST}}
                    = {authority(fwd.url)}

\* ------------------------------------------------------------------------
\* Requests: the errors of the plain HTTP path, and the registry they leave
\* ------------------------------------------------------------------------

\* the registry of the running build
RegistryNow == IF build = "pp" THEN engine_shared ELSE server_state

\* C32: an authenticated request that is neither a CONNECT nor an upgrade
\* is answered 400, with no upstream request, when its target cannot be
\* parsed, and 502, after the one upstream request, when the upstream
\* fails; the registry is as it was.
C32_ErrorMapping ==
    [][(/\ last'.op = "request"
        /\ last'.req.method # "CONNECT"
        /\ ~last'.req.upgrade
        /\ IF build = "pp"
           THEN authenticate(engine_shared, last'.req.header) # None
           ELSE authenticate_request(server_state, last'.req.header) # None)
          => /\ ~last'.req.target => last'.resp = Response(400, "none")
             /\ (last'.req.target /\ ~last'.req.up_ok)
                    => last'.resp = Response(502, "request")
             /\ RegistryNow' = RegistryNow]_vars

\* an authenticated GET whose target could not be parsed was answered 400
\* while a context is registered
C32_Witness ==
    /\ last.op = "request"
    /\ last.req.method = "GET"
    /\ ~last.req.upgrade
    /\ ~last.req.target
    /\ last.resp = Response(400, "none")
    /\ Indices[1] # EmptyMap

\* C35: no request, whatever its answer, changes an entry of either index
\* of the registry or the logging flag.
C35_RequestsLeaveRegistry ==
    [][last'.op = "request"
          => /\ Indices' = Indices
             /\ Flag' = Flag
             /\ INITIAL_LOGGING' = INITIAL_LOGGING]_vars

\* a CONNECT was answered 200 while a context is registered
C35_Witness ==
    /\ last.op = "request"
    /\ last.req.method = "CONNECT"
    /\ last.resp.status = 200
    /\ Indices[1] # EmptyMap

\* ------------------------------------------------------------------------
\* Contexts with their routes, and the requests rewritten by them
\* ------------------------------------------------------------------------

\* preview_proxy_configure, the context holding the route of the options
preview_proxy_configure_routed(id, hex4, hex12, route) ==
    /\ build = "pp"
    /\ LET e == ensure_engine
           new == ProxyContext_new(id, hex4, hex12)
           ctx == [username |-> new.username, password |-> new.password,
                   web_contents_id |-> id, route |-> route]
       IN  /\ PREVIEW_PROXY' = e.cell
           /\ engines' = e.engines
           /\ IF e.ok /\ id # 0
              THEN /\ engine_shared' =
                        register_context(release_by_web_contents(e.shared, id), ctx)
                   /\ last' = Last("configure", id, TRUE,
                                   Some([username |-> ctx.username,
                                         password |-> ctx.password]),
                                   None, e.engines[e.engine].port,
                                   NoReq, NoResp, NoSnapshot)
              ELSE /\ engine_shared' = e.shared
                   /\ last' = Last("configure", id, FALSE, None, None, 0,
                                   NoReq, NoResp, NoSnapshot)
    /\ UNCHANGED <<build, more_vars, conc_vars, ps_vars>>

\* configure_preview_proxy_context, the context holding the route derived
\* from the initial url
configure_preview_proxy_context_routed(username, password, initial_url, web_contents_id) ==
    /\ build = "ps"
    /\ LET context == [username |-> username, password |-> password,
                       web_contents_id |-> web_contents_id,
                       route |-> derive_route(initial_url)]
       IN  IF PROXY_SERVER # 0
           THEN /\ server_state' = add_context(server_state, context)
                /\ last' = Last("configure", web_contents_id, TRUE,
                                Some([username |-> username, password |-> password]),
                                None, 0, NoReq, NoResp, NoSnapshot)
           ELSE /\ server_state' = server_state
                /\ last' = Last("configure", web_contents_id, FALSE, None, None, 0,
                                NoReq, NoResp, NoSnapshot)
    /\ UNCHANGED <<build, more_vars, conc_vars, pp_vars, PROXY_SERVER, servers>>

\* a GET for http://host:7000/ with the credentials of a context: the
\* handler authenticates it, and rewrites the target by the route of the
\* context authenticate gave
routed_request(username, password, host) ==
    /\ build \in {"pp", "ps"}
    /\ IF build = "pp" THEN PREVIEW_PROXY # 0 ELSE PROXY_SERVER # 0
    /\ app.op = "idle"
    /\ LET header == BasicHeader(username, password)
           ctx == IF build = "pp" THEN authenticate(engine_shared, header)
                  ELSE authenticate_request(server_state, header)
       IN  /\ IsSome(ctx)
           /\ app' = App("request",
                         [username |-> username, password |-> password,
                          host |-> host],
                         IF build = "pp"
                         THEN pp_rewrite_target(Url_parse("http", host, Some(7000)),
                                                Unwrap(ctx).route).url
                         ELSE rewrite_target(parse_request_url("http", host, Some(7000)),
                                             Unwrap(ctx).route).url)
    /\ UNCHANGED app_frame

\* the hosts of the targets: a loopback host and another
RoutedHosts == {<<"l", "o", "c", "a", "l", "h", "o", "s", "t">>, <<"e", "x", "a", "m", "p", "l", "e", ".", "c", "o", "m">>}

IsolationNext ==
    \/ \E id \in Ids(MaxId), h4 \in random_hex(USERNAME_RANDOM_BYTES),
          h12 \in random_hex(PASSWORD_RANDOM_BYTES),
          route \in OptionalRoutes :
            preview_proxy_configure_routed(id, h4, h12, route)
    \/ \E id \in Ids(MaxId) : preview_proxy_release(id)
    \/ start_preview_proxy
    \/ \E u \in UsernamePool, url \in InitialUrls, id \in Ids(MaxId) :
            configure_preview_proxy_context_routed(u, <<"p">>, url, id)
    \/ \E id \in Ids(MaxId) : release_preview_proxy_context(id)
    \/ \E c \in GeneratedContexts(MaxId), host \in RoutedHosts :
            routed_request(c.username, c.password, host)
    \/ \E u \in UsernamePool, host \in RoutedHosts : routed_request(u, <<"p">>, host)
    \/ app_end

SpecIsolation == Init /\ [][IsolationNext]_vars

\* the contexts a registry holds, in either index
ContextsOf(registry) ==
    IF build = "pp" THEN MapValues(registry.contexts_by_username)
    ELSE MapValues(registry.contexts_by_username)
            \cup MapValues(registry.contexts_by_web_contents_id)

\* the url a route rewrites http://host:7000/ to
RewrittenBy(host, route) ==
    IF build = "pp"
    THEN pp_rewrite_target(Url_parse("http", host, Some(7000)), route).url
    ELSE rewrite_target(parse_request_url("http", host, Some(7000)), route).url

\* C34: the url a request is sent to is the one the route of the context
\* whose credentials it carries gives, whatever other contexts are
\* registered: for every context the registry holds with the username and
\* the password of the request, the rewritten url is the target rewritten
\* by the route of that context.
C34_SessionIsolation ==
    [][(app.op = "idle" /\ app'.op = "request")
          => \A c \in ContextsOf(RegistryNow) :
                (c.username = app'.arg.username /\ c.password = app'.arg.password)
                    => app'.out = RewrittenBy(app'.arg.host, c.route)]_vars

\* ------------------------------------------------------------------------
\* The connections accepted, beside start and stop
\* ------------------------------------------------------------------------

\* an accept branch that is taken on a listener whose loop has returned
serve_accept_connection_closed(i, req) ==
    /\ build = "ps"
    /\ conn.pc \in {"idle", "done"}
    /\ servers' = [servers EXCEPT ![i].pc = "accepted"]
    /\ conn' = Conn("handler", req, None, <<>>, FALSE, FALSE)
    /\ UNCHANGED <<build, pp_vars, PROXY_SERVER, server_state, last, conc_vars,
                   calls, fwd, app, INITIAL_LOGGING>>

\* ProxyServer::serve, the accept branch with the task it spawns: the
\* connection is handled in a task of its own, which takes the request of
\* a client that holds credentials
serve_accept_connection(i, req) ==
    /\ build = "ps"
    /\ servers[i].pc \in {"select", "notified"}
    /\ conn.pc \in {"idle", "done"}
    /\ servers' = [servers EXCEPT ![i].pc = "accepted"]
    /\ conn' = Conn("handler", req, None, <<>>, FALSE, FALSE)
    /\ UNCHANGED <<build, pp_vars, PROXY_SERVER, server_state, last, conc_vars,
                   calls, fwd, app, INITIAL_LOGGING>>

\* the requests that open a tunnel
DrainRequests ==
    {TunnelRequest(rest, <<>>) :
        rest \in {r \in RequestRest : r.method = "CONNECT" \/ r.upgrade}}

DrainNext ==
    \/ start_preview_proxy
    \/ stop_preview_proxy
    \/ \E i \in 1..Len(servers) : serve_select(i)
    \/ \E i \in 1..Len(servers) : serve_shutdown(i)
    \/ \E i \in 1..Len(servers), req \in DrainRequests :
            serve_accept_connection(i, req)
    \/ ps_handle_connect_dial
    \/ handle_upgrade_forward
    \/ upgrade_on
    \/ upgrade_on_err
    \/ client_close
    \/ upstream_close
    \/ tunnel_end

SpecDrain == Init /\ [][DrainNext]_vars

\* C36: no step of start, of stop or of the accept loop other than the
\* accept itself changes the connection that is handled; a tunnel that
\* copies ends only once its client or its upstream has closed; and a
\* connection is handled only by the accept of a loop that has not
\* returned.
C36_StopDrains ==
    [][/\ (servers' # servers /\ conn'.pc # "handler") => conn' = conn
       /\ (conn.pc = "copy" /\ conn'.pc # "copy")
            => (conn.client_eof \/ conn.upstream_eof)
       /\ (conn' # conn /\ conn'.pc = "handler")
            => \E i \in 1..Len(servers) :
                    /\ servers[i].pc # "done"
                    /\ servers'[i].pc = "accepted"]_vars

\* the tunnel of a connection copies while the server is stopped and its
\* accept loop has returned
C36_Witness ==
    /\ conn.pc = "copy"
    /\ last.op = "stop"
    /\ PROXY_SERVER = 0
    /\ Len(servers) >= 1
    /\ \A i \in 1..Len(servers) : servers[i].pc = "done"

\* ------------------------------------------------------------------------
\* crates/cmux-proxy: the address of a workspace
\* ------------------------------------------------------------------------

\* a u32 as its two 16-bit halves
U32(hi, lo) == [hi |-> hi, lo |-> lo]

\* the byte of an ASCII character
as_byte(c) ==
    IF IsDigit(c) THEN 48 + DigitValue(c)
    ELSE IF \E k \in DOMAIN LowerAlpha : LowerAlpha[k] = c
    THEN 96 + CHOOSE k \in DOMAIN LowerAlpha : LowerAlpha[k] = c
    ELSE IF \E k \in DOMAIN UpperAlpha : UpperAlpha[k] = c
    THEN 64 + CHOOSE k \in DOMAIN UpperAlpha : UpperAlpha[k] = c
    ELSE CASE c = "-" -> 45 [] c = "." -> 46 [] c = "/" -> 47 [] OTHER -> 95

\* the ^ of two unsigned integers
RECURSIVE xor(_, _)
xor(a, b) ==
    IF a = 0 THEN b
    ELSE IF b = 0 THEN a
    ELSE ((a + b) % 2) + 2 * xor(a \div 2, b \div 2)

\* h.wrapping_mul(0x01000193): 0x01000193 is 2^24 + 403
wrapping_mul_prime(h) ==
    LET low == h.lo * 403
    IN  U32((h.hi * 403 + low \div 65536 + (h.lo % 256) * 256) % 65536, low % 65536)

\* the loop over the bytes: h ^= b; h = h.wrapping_mul(0x01000193)
RECURSIVE fnv1a(_, _)
fnv1a(bytes, h) ==
    IF bytes = <<>> THEN h
    ELSE fnv1a(Tail(bytes),
               wrapping_mul_prime(U32(h.hi, xor(h.lo, as_byte(Head(bytes))))))

\* str::parse::<u32> of a run of digits: None once the number passes 2^32 - 1
RECURSIVE parse_u32(_, _)
parse_u32(digits, acc) ==
    IF digits = <<>> THEN Some(acc)
    ELSE LET lo == acc.lo * 10 + DigitValue(Head(digits))
             hi == acc.hi * 10 + lo \div 65536
         IN  IF hi > 65535 THEN None
             ELSE parse_u32(Tail(digits), U32(hi, lo % 65536))

\* name.rsplit('/').next(): what follows the last '/'
last_component(name) ==
    LET at == {i \in DOMAIN name : name[i] = "/"}
    IN  IF at = {} THEN name
        ELSE SubSeq(name, (CHOOSE i \in at : \A j \in at : j <= i) + 1, Len(name))

\* the digits a text ends with
trailing_digits(base) ==
    LET from == CHOOSE k \in 1..(Len(base) + 1) :
                    /\ \A i \in k..Len(base) : IsDigit(base[i])
                    /\ k > 1 => ~IsDigit(base[k - 1])
    IN  SubSeq(base, from, Len(base))

\* workspace_ip_from_name: the four octets, as an Option
workspace_ip_from_name(name) ==
    LET base == last_component(name)
        digits == trailing_digits(base)
        n == IF digits # <<>> THEN parse_u32(digits, U32(0, 0))
             ELSE Some(U32(0, fnv1a(to_lowercase(base), U32(33052, 40389)).lo))
    IN  IF n = None THEN None
        ELSE Some(<<127, 18, (Unwrap(n).lo \div 256) % 256, Unwrap(n).lo % 256>>)

\* the names of workspaces
WorkspaceNames ==
    {<<"w", "o", "r", "k", "s", "p", "a", "c", "e", "-", "1">>, <<"w", "o", "r", "k", "s", "p", "a", "c", "e", "-", "0", "0", "7">>, <<"w", "o", "r", "k", "s", "p", "a", "c", "e", "-", "0">>, <<"w", "o", "r", "k", "s", "p", "a", "c", "e", "-", "2", "5", "5">>, <<"w", "o", "r", "k", "s", "p", "a", "c", "e", "-", "2", "5", "6">>,
     <<"w", "o", "r", "k", "s", "p", "a", "c", "e", "-", "6", "5", "5", "3", "5">>, <<"w", "o", "r", "k", "s", "p", "a", "c", "e", "-", "6", "5", "5", "3", "6">>, <<"w", "o", "r", "k", "s", "p", "a", "c", "e", "-", "4", "2", "9", "4", "9", "6", "7", "2", "9", "5">>,
     <<"w", "o", "r", "k", "s", "p", "a", "c", "e", "-", "4", "2", "9", "4", "9", "6", "7", "2", "9", "6">>, <<"t", "e", "a", "m", "/", "w", "o", "r", "k", "s", "p", "a", "c", "e", "-", "1", "2">>, <<"1", "2", "/", "w", "s">>, <<"w", "s">>, <<"W", "S">>, <<"a">>, <<"m", "a", "i", "n", ".", "d", "e", "v">>,
     <<"t", "e", "a", "m", "/">>, <<>>}

\* workspace_ip_from_name applied to a name
workspace_ip(name) ==
    /\ build = "cp"
    /\ app.op = "idle"
    /\ app' = App("workspace_ip", name, workspace_ip_from_name(name))
    /\ UNCHANGED app_frame

\* the number a run of digits writes, modulo 2^16
RECURSIVE Mod16(_, _)
Mod16(digits, acc) ==
    IF digits = <<>> THEN acc
    ELSE Mod16(Tail(digits), (acc * 10 + DigitValue(Head(digits))) % 65536)

\* the low 16 bits of the 32-bit FNV-1a hash: the low half of a product
\* depends on the low halves alone
RECURSIVE Fnv16(_, _)
Fnv16(bytes, low) ==
    IF bytes = <<>> THEN low
    ELSE Fnv16(Tail(bytes), (xor(low, as_byte(Head(bytes))) * 403) % 65536)

\* C40: for every workspace name workspace_ip_from_name gives an address
\* 127.18.x.y, where 256 x + y is the number the name ends with, taken to
\* 16 bits, when it ends with digits, and otherwise the FNV-1a hash of the
\* name in lower case, taken to 16 bits; so numbers of [0, 65535] that
\* differ give addresses that differ.
C40_WorkspaceAddress ==
    app.op = "workspace_ip"
        => /\ IsSome(app.out)
           /\ LET ip == Unwrap(app.out)
                  base == last_component(app.arg)
                  digits == trailing_digits(base)
              IN  /\ ip[1] = 127
                  /\ ip[2] = 18
                  /\ ip[3] \in 0..255
                  /\ ip[4] \in 0..255
                  /\ 256 * ip[3] + ip[4] =
                        IF digits # <<>> THEN Mod16(digits, 0)
                        ELSE Fnv16(to_lowercase(base), 40389)

\* ------------------------------------------------------------------------
\* The functions applied
\* ------------------------------------------------------------------------

PureNext ==
    \/ \E method \in {"CONNECT", "GET"}, headers \in DispatchHeaders :
            dispatch(method, headers)
    \/ \E start \in StartPorts, range \in 0..MaxRange, plan \in BindPlans,
          checked \in BOOLEAN :
            ps_scan(start, range, plan, checked)
    \/ \E plan \in BindPlans, checked \in BOOLEAN : pp_scan(plan, checked)
    \/ \E headers \in StripHeaders : strip(headers)
    \/ \E host \in ClassifiedHosts : is_loopback(host)
    \/ \E m \in MorphIds, s \in Scopes, k \in DOMAIN CMUX_DOMAINS, port \in EncodedPorts :
            derive_route_of_host(Route(m, s, CMUX_DOMAINS[k]), port)
    \/ \E host \in DerivedHosts : derive_route_of_url(UrlText("http", host, None))
    \/ \E name \in WorkspaceNames : workspace_ip(name)
    \/ app_end

SpecPure == Init /\ [][PureNext]_vars

====
